---- MODULE Spec2Model ----
(***************************************************************************)
(* A model of VimState (the per-editor state: cursor set, current mode,    *)
(* pending command) and of the commands of the action catalog that act on  *)
(* it.                                                                     *)
(***************************************************************************)
EXTENDS Integers, Sequences, FiniteSets, TLC

\* ---------------------------------------------------------------- bounds

\* Longest list handed to the cursors setter in one assignment.
MaxInput == 3
\* Most cursors the live array holds before in-place pushes stop.
MaxCursors == 3
\* Most setCurrentMode calls left suspended on the input-method switcher.
MaxPending == 2
\* Most actions run within one pending command.
MaxActions == 4
\* Most actions a register holds as a macro (recorded, or recorded and appended).
MaxRecorded == 3
\* Largest count typed before a macro is invoked.
MaxCount == 2
\* Most content changes handed to one DocumentContentChangeAction in all.
MaxChanges == 3
\* Most content changes handed to addChanges in one call.
MaxBatch == 2

\* ------------------------------------------------------------- variables

VARIABLES
    doc,                  \* the document: doc[l + 1] is the length of line l
    cursors,              \* VimState._cursors
    currentMode,          \* VimState._currentMode
    isFakeMultiCursor,    \* VimState.isFakeMultiCursor
    returnToInsertAfterCommand,
    firstVisibleLineBeforeSearch,
    transformations,      \* recordedState.transformer.transformations
    count,                \* recordedState.count
    operatorCount,        \* recordedState.operatorCount
    actionsRun,           \* recordedState.actionsRun
    registerName,         \* recordedState.registerName
    operator,             \* recordedState.operator
    isCompleteAction,     \* isCompleteAction of the action last executed
    hasSwitcher,          \* VimState.inputMethodSwitcher is defined
    pendingSwitches,      \* setCurrentMode calls suspended on switchInputMethod
    running,              \* the command whose exec the key handler awaits
    execState,            \* that exec's promise: idle, awaiting, resolved, rejected
    logged,               \* warnings the logger received during the last call
    lastCall,             \* the last call made on the state, with its argument
    registers,            \* Register.registers: the content of every register
    macro,                \* VimState.macro: the recording in progress
    lastInvokedMacro,     \* VimState.lastInvokedMacro
    statusBar,            \* the error text StatusBar.displayError showed last
    contentChanges,       \* DocumentContentChangeAction.contentChanges
    addedChanges,         \* every change handed to addChanges so far, in order
    version,              \* editor.document.version
    documentSymbols,      \* VimState._documentSymbols: the cache
    symbolRequests,       \* requestDocumentSymbols calls awaiting TextEditor.getSymbols
    symbolsReturned,      \* what the requestDocumentSymbols that returned last returned
    registerModeField,    \* VimState._currentRegisterMode
    previousFullAction    \* globalState.previousFullAction: what . repeats

cursorVars == <<cursors, logged, lastCall>>
modeVars == <<currentMode, returnToInsertAfterCommand, firstVisibleLineBeforeSearch>>
pendingVars == <<count, operatorCount, actionsRun, registerName, operator, isCompleteAction>>
asyncVars == <<hasSwitcher, pendingSwitches, running, execState>>
registerVars == <<registers, lastInvokedMacro, statusBar>>
changeVars == <<contentChanges, addedChanges>>
symbolVars == <<version, documentSymbols, symbolRequests, symbolsReturned>>
registerModeVars == <<registerModeField>>
globalVars == <<previousFullAction>>
vars == <<doc, cursors, currentMode, isFakeMultiCursor, returnToInsertAfterCommand,
          firstVisibleLineBeforeSearch, transformations, count, operatorCount, actionsRun,
          registerName, operator, isCompleteAction, logged, lastCall,
          hasSwitcher, pendingSwitches, running, execState,
          registers, macro, lastInvokedMacro, statusBar, contentChanges, addedChanges,
          version, documentSymbols, symbolRequests, symbolsReturned, registerModeField,
          previousFullAction>>

\* ------------------------------------------------------ positions, cursors

Pos(l, c) == [line |-> l, character |-> c]
Cursor(s, e) == [start |-> s, stop |-> e]
Caret(p) == Cursor(p, p)

\* The documents the model starts from, each the lengths of its lines: a line
\* that ends inside a block, lines that end at a block's left edge, and empty
\* lines.
Documents == {<<2, 1>>, <<1, 1>>, <<0, 0>>}

Lines == 0 .. (Len(doc) - 1)

\* firstVisibleLineBeforeSearch when no search is in progress (undefined).
UndefinedLine == 0 - 1

LineLength(l) == doc[l + 1]

\* Position.isValid(editor): the line exists and the column is not past its end.
PositionIsValid(p) ==
    /\ p.line \in Lines
    /\ p.character <= LineLength(p.line)

\* Cursor.isValid(editor)
CursorIsValid(c) == PositionIsValid(c.start) /\ PositionIsValid(c.stop)

\* Cursor.toString(): "[start | stop]" with each position as "[line, character]".
CursorToString(c) ==
    <<c.start.line, c.start.character, c.stop.line, c.stop.character>>

\* Cursor.withNewStart / Cursor.withNewStop
WithNewStart(c, p) == Cursor(p, c.stop)
WithNewStop(c, p) == Cursor(c.start, p)

\* The positions assigned through cursorStartPosition / cursorStopPosition;
\* the last one is past the end of a line in the document of empty lines.
InputPositions == {Pos(0, 0), Pos(0, 1), Pos(1, 1)}

\* The lists of cursors handed to the setter: every list of at most MaxInput
\* cursors drawn from two carets and a selection between them.
InputCursors ==
    {Caret(Pos(0, 0)), Caret(Pos(1, 1)), Cursor(Pos(0, 1), Pos(1, 1))}

InputLists == UNION {[1 .. n -> InputCursors] : n \in 0 .. MaxInput}

\* ----------------------------------------------------- Map<string, Cursor>

\* A Map is the sequence of its entries in insertion order.
MapHas(m, k) == \E i \in 1 .. Len(m) : m[i].key = k

\* Map.set that moves a known key to the end.
MapSetMovingKey(m, k, v) ==
    Append(SelectSeq(m, LAMBDA e : e.key # k), [key |-> k, value |-> v])

\* Map.set as a plain push: an entry per call.
MapSetAlwaysAppend(m, k, v) == Append(m, [key |-> k, value |-> v])

\* Map.set: a new key is appended, a known key keeps its place and gets the value.
MapSet(m, k, v) ==
    IF MapHas(m, k)
    THEN [i \in 1 .. Len(m) |-> IF m[i].key = k THEN [key |-> k, value |-> v] ELSE m[i]]
    ELSE Append(m, [key |-> k, value |-> v])

\* [...map.values()]
MapValues(m) == [i \in 1 .. Len(m) |-> m[i].value]

RECURSIVE MapOfCursors(_, _)
MapOfCursors(value, m) ==
    IF value = <<>> THEN m
    ELSE MapOfCursors(Tail(value), MapSet(m, CursorToString(Head(value)), Head(value)))

\* The setter without its guard against an empty list.
CursorsAfterSetAcceptingEmpty(old, value) == MapValues(MapOfCursors(value, <<>>))

\* The cursors setter: the array the state holds after `cursors = value`.
CursorsAfterSet(old, value) ==
    IF Len(value) = 0 THEN old ELSE MapValues(MapOfCursors(value, <<>>))

\* What the setter logs.
LoggedBySet(value) ==
    IF Len(value) = 0 THEN {"empty cursors"}
    ELSE IF \E i \in 1 .. Len(value) : ~CursorIsValid(value[i])
         THEN {"invalid cursor position"} ELSE {}

NoPos == <<>>
Call(op, cs, ps) == [op |-> op, cursorsArg |-> cs, posArg |-> ps]

\* ------------------------------------------------- registers and recording

\* What a register holds: nothing, text (the lengths of its lines), or a
\* RecordedState with the actions of a macro.
NoContent == [kind |-> "none", text |-> <<>>, actionsRun |-> <<>>]
TextContent(t) == [kind |-> "text", text |-> t, actionsRun |-> <<>>]
MacroContent(as) == [kind |-> "macro", text |-> <<>>, actionsRun |-> as]

\* The registers of the model: two named ones and the unnamed one.
RegisterNames == {"a", "b", "\""}

\* VimState.macro: undefined, or the RecordedState of the recording with the
\* register it goes to. `key` is the key the recording was started with and
\* `before` the content of the register at that moment.
NoMacro ==
    [recording |-> FALSE, registerName |-> "", actionsRun |-> <<>>, key |-> "",
     before |-> NoContent]

\* /^[A-Z]+$/.test(key) and key.toLocaleLowerCase() for the keys of the model.
IsUpper(key) == key \in {"A", "B", "Z"}
Lower(key) ==
    CASE key = "A" -> "a" [] key = "B" -> "b" [] key = "Z" -> "z" [] OTHER -> key

\* Register.has(name): the register holds something.
RegisterHas(name) == name \in RegisterNames /\ registers[name].kind # "none"

\* Register.put(vimState, content, index, copyToUnnamed): the content goes to
\* the register named by recordedState.registerName (the unnamed one when no
\* register was selected), replacing what it held; the names the model puts
\* to are lower case.
RegisterPut(name, content, copyToUnnamed) ==
    LET r == IF name = "undefined" THEN "\"" ELSE name
        put == [registers EXCEPT ![r] = content]
    IN IF copyToUnnamed /\ r # "\"" THEN [put EXCEPT !["\""] = content] ELSE put

\* The registers belong to the process and outlive the editor's state: when a
\* VimState is constructed register a holds nothing, text, or a macro.
NoRegisters == [r \in RegisterNames |-> NoContent]
InitialRegisters ==
    {[NoRegisters EXCEPT !["a"] = c] :
        c \in {NoContent, TextContent(<<1>>),
               MacroContent(<<[name |-> "IncrementDecrementNumberAction",
                               keysPressed |-> <<"<C-a>">>]>>)}}

\* VimState.lastInvokedMacro: undefined, or the RecordedState replayed last.
NoRecordedState == [defined |-> FALSE, registerName |-> ""]

\* ------------------------------------------------ symbols, register modes

\* A document's versions count up from 1; 0 stands for the null of a cache
\* that was never filled.
NullVersion == 0

\* A list of symbols is named by the version of the text it describes; 0 is
\* the empty list the cache starts with.
NoSymbols == 0

\* What requestDocumentSymbols returned last, and whether the cache answered.
NothingReturned == [returned |-> FALSE, fromCache |-> FALSE, symbols |-> NoSymbols]

\* enum RegisterMode { CharacterWise, LineWise, BlockWise }: the members of a
\* TypeScript enum without initialisers are the numbers from 0.
CharacterWise == 0
LineWise == 1
BlockWise == 2

RegisterModes == {CharacterWise, LineWise, BlockWise}

\* RegisterMode | undefined
UndefinedRegisterMode == [defined |-> FALSE, value |-> 0]
DefinedRegisterMode(r) == [defined |-> TRUE, value |-> r]

\* globalState.previousFullAction: undefined, or the pending command of the
\* last command that can be repeated.
NoPreviousFullAction == [defined |-> FALSE, actionsRun |-> <<>>]
PreviousFullAction(actions) == [defined |-> TRUE, actionsRun |-> actions]

\* ------------------------------------------------------------------ Init

\* The state a new VimState is in, whatever the document.
InitState ==
    /\ cursors = <<Caret(Pos(0, 0))>>
    /\ currentMode = "Normal"
    /\ isFakeMultiCursor = FALSE
    /\ returnToInsertAfterCommand = FALSE
    /\ firstVisibleLineBeforeSearch = UndefinedLine
    /\ transformations = <<>>
    /\ count = 0
    /\ operatorCount = 0
    /\ actionsRun = <<>>
    /\ registerName = "undefined"
    /\ operator = "undefined"
    /\ isCompleteAction = TRUE
    /\ hasSwitcher \in BOOLEAN
    /\ pendingSwitches = <<>>
    /\ running = "none"
    /\ execState = "idle"
    /\ logged = {}
    /\ lastCall = Call("constructor", <<>>, NoPos)
    /\ registers \in InitialRegisters
    /\ macro = NoMacro
    /\ lastInvokedMacro = NoRecordedState
    /\ statusBar = <<>>
    /\ contentChanges = <<>>
    /\ addedChanges = <<>>
    /\ version = 1
    /\ documentSymbols = [version |-> NullVersion, symbols |-> NoSymbols]
    /\ symbolRequests = <<>>
    /\ symbolsReturned = NothingReturned
    /\ registerModeField = UndefinedRegisterMode
    /\ previousFullAction = NoPreviousFullAction

Init == doc \in Documents /\ InitState

\* ------------------------------------------------------ VimState: cursors

\* vimState.cursors = value
SetCursors(value) ==
    /\ cursors' = CursorsAfterSet(cursors, value)
    /\ logged' = LoggedBySet(value)
    /\ lastCall' = Call("set cursors", value, NoPos)
    /\ UNCHANGED <<doc, modeVars, isFakeMultiCursor, transformations, pendingVars, asyncVars>>
    /\ UNCHANGED <<macro, registerVars, changeVars, symbolVars, registerModeVars, globalVars>>

\* What the cursorStartPosition / cursorStopPosition setters log.
LoggedBySetPosition(p, which) ==
    IF PositionIsValid(p) THEN {} ELSE {"invalid cursor " \o which \o " position"}

\* The start setter returning after its warning.
CursorsAfterSetStartKeepingValid(cs, p) ==
    IF PositionIsValid(p) THEN [cs EXCEPT ![1] = WithNewStart(@, p)] ELSE cs

\* The array after `cursorStartPosition = p`: cursors[0] is replaced in place.
CursorsAfterSetStart(cs, p) == [cs EXCEPT ![1] = WithNewStart(@, p)]

\* The array after `cursorStopPosition = p`.
CursorsAfterSetStop(cs, p) == [cs EXCEPT ![1] = WithNewStop(@, p)]

\* vimState.cursorStartPosition = p
SetCursorStartPosition(p) ==
    /\ cursors' = CursorsAfterSetStart(cursors, p)
    /\ logged' = LoggedBySetPosition(p, "start")
    /\ lastCall' = Call("set cursorStartPosition", <<>>, <<p>>)
    /\ UNCHANGED <<doc, modeVars, isFakeMultiCursor, transformations, pendingVars, asyncVars>>
    /\ UNCHANGED <<macro, registerVars, changeVars, symbolVars, registerModeVars, globalVars>>

\* vimState.cursorStopPosition = p
SetCursorStopPosition(p) ==
    /\ cursors' = CursorsAfterSetStop(cursors, p)
    /\ logged' = LoggedBySetPosition(p, "stop")
    /\ lastCall' = Call("set cursorStopPosition", <<>>, <<p>>)
    /\ UNCHANGED <<doc, modeVars, isFakeMultiCursor, transformations, pendingVars, asyncVars>>
    /\ UNCHANGED <<macro, registerVars, changeVars, symbolVars, registerModeVars, globalVars>>

\* vimState.cursors.push(c): the getter hands out the live array.
PushCursor(c) ==
    /\ Len(cursors) < MaxCursors
    /\ cursors' = Append(cursors, c)
    /\ logged' = {}
    /\ lastCall' = Call("push", <<c>>, NoPos)
    /\ UNCHANGED <<doc, modeVars, isFakeMultiCursor, transformations, pendingVars, asyncVars>>
    /\ UNCHANGED <<macro, registerVars, changeVars, symbolVars, registerModeVars, globalVars>>

\* --------------------------------------------------------- VimState: mode

\* setCurrentMode that forgets the first visible line only when it is asked to.
ModeAfterSetKeepingLine(mode, topLine) ==
    [currentMode |-> mode,
     returnToInsertAfterCommand |->
         IF returnToInsertAfterCommand /\ mode = "Insert" THEN FALSE
         ELSE returnToInsertAfterCommand,
     firstVisibleLineBeforeSearch |->
         IF mode = "SearchInProgressMode" THEN topLine ELSE firstVisibleLineBeforeSearch]

\* The assignments of setCurrentMode(mode) once the input-method switcher has
\* answered; topLine is editor.visibleRanges[0].start.line.
ModeAfterSet(mode, topLine) ==
    [currentMode |-> mode,
     returnToInsertAfterCommand |->
         IF returnToInsertAfterCommand /\ mode = "Insert" THEN FALSE
         ELSE returnToInsertAfterCommand,
     firstVisibleLineBeforeSearch |->
         IF mode = "SearchInProgressMode" THEN topLine ELSE UndefinedLine]

\* await vimState.setCurrentMode(mode)
AwaitSetCurrentMode(mode) ==
    \E topLine \in Lines :
        LET m == ModeAfterSet(mode, topLine) IN
        /\ currentMode' = m.currentMode
        /\ returnToInsertAfterCommand' = m.returnToInsertAfterCommand
        /\ firstVisibleLineBeforeSearch' = m.firstVisibleLineBeforeSearch

\* ------------------------------------------------------------ text editor

Min(a, b) == IF a < b THEN a ELSE b
Max(a, b) == IF a > b THEN a ELSE b

\* visualBlockGetTopLeftPosition / visualBlockGetBottomRightPosition
VisualBlockTopLeft(a, b) ==
    Pos(Min(a.line, b.line), Min(a.character, b.character))
VisualBlockBottomRight(a, b) ==
    Pos(Max(a.line, b.line), Max(a.character, b.character))

\* TextEditor.iterateLinesInBlock(vimState, cursor): one entry per line of the
\* block, top to bottom; `text` is the length of the line's part inside the block.
LinesInBlock(c) ==
    LET tl == VisualBlockTopLeft(c.start, c.stop)
        br == VisualBlockBottomRight(c.start, c.stop)
    IN [i \in 1 .. (br.line - tl.line + 1) |->
           LET l == tl.line + i - 1
               endCharacter == Min(LineLength(l), br.character + 1)
           IN [text |-> Max(0, endCharacter - tl.character),
               start |-> Pos(l, tl.character),
               end |-> Pos(l, endCharacter)]]

\* Position.getRight(n): n columns to the right, stopping at the end of the line.
GetRight(p, n) == Pos(p.line, Min(p.character + n, Max(p.character, LineLength(p.line))))

\* transformer.addTransformation
DeleteRange(s, e) ==
    [type |-> "deleteRange", start |-> s, end |-> e, manuallySetCursorPositions |-> TRUE]

\* -------------------------------------------------------------- commands

\* CommandVisualBlockMode (<C-v>, <C-q>), run once for every cursor: each
\* cursor's stop moves right by count - 1 when a count above 1 is pending in
\* Normal mode, and the resulting cursors are assigned in bulk.
CommandVisualBlockMode ==
    /\ currentMode \in {"Normal", "Visual", "VisualLine"}
    /\ LET resultingCursors ==
               [i \in 1 .. Len(cursors) |->
                   IF currentMode = "Normal" /\ count > 1
                   THEN WithNewStop(cursors[i], GetRight(cursors[i].stop, count - 1))
                   ELSE cursors[i]]
       IN /\ cursors' = CursorsAfterSet(cursors, resultingCursors)
          /\ logged' = LoggedBySet(resultingCursors)
    /\ AwaitSetCurrentMode("VisualBlock")
    /\ lastCall' = Call("CommandVisualBlockMode", <<>>, NoPos)
    /\ UNCHANGED <<doc, isFakeMultiCursor, transformations, pendingVars, asyncVars>>
    /\ UNCHANGED <<macro, registerVars, changeVars, symbolVars, registerModeVars, globalVars>>

\* ActionGoToInsertVisualBlockMode (I in VisualBlock): a caret is pushed onto
\* the live array for every line of the block except a line that has no text
\* in the block and starts past column 0; then cursors = cursors.slice(1).
CursorsPushedByInsertVisualBlock(c) ==
    LET block == LinesInBlock(c)
        kept == SelectSeq(block, LAMBDA e : ~(e.text = 0 /\ e.start.character # 0))
    IN [i \in 1 .. Len(kept) |-> Caret(kept[i].start)]

ActionGoToInsertVisualBlockMode ==
    /\ currentMode = "VisualBlock"
    /\ AwaitSetCurrentMode("Insert")
    /\ isFakeMultiCursor' = TRUE
    /\ LET live == cursors \o CursorsPushedByInsertVisualBlock(cursors[1])
       IN /\ cursors' = CursorsAfterSet(live, Tail(live))
          /\ logged' = LoggedBySet(Tail(live))
    /\ lastCall' = Call("ActionGoToInsertVisualBlockMode", <<>>, NoPos)
    /\ UNCHANGED <<doc, transformations, pendingVars, asyncVars>>
    /\ UNCHANGED <<macro, registerVars, changeVars, symbolVars, registerModeVars, globalVars>>

\* ActionChangeInVisualBlockMode (c, s in VisualBlock): the block's part of
\* every line is deleted, a caret is pushed for every line, and then
\* cursors = cursors.slice(1).
CursorsPushedByChangeVisualBlock(c) ==
    LET block == LinesInBlock(c) IN [i \in 1 .. Len(block) |-> Caret(block[i].start)]

ActionChangeInVisualBlockMode ==
    /\ currentMode = "VisualBlock"
    /\ LET block == LinesInBlock(cursors[1])
       IN transformations' = transformations \o
              [i \in 1 .. Len(block) |-> DeleteRange(block[i].start, block[i].end)]
    /\ AwaitSetCurrentMode("Insert")
    /\ isFakeMultiCursor' = TRUE
    /\ LET live == cursors \o CursorsPushedByChangeVisualBlock(cursors[1])
       IN /\ cursors' = CursorsAfterSet(live, Tail(live))
          /\ logged' = LoggedBySet(Tail(live))
    /\ lastCall' = Call("ActionChangeInVisualBlockMode", <<>>, NoPos)
    /\ UNCHANGED <<doc, pendingVars, asyncVars>>
    /\ UNCHANGED <<macro, registerVars, changeVars, symbolVars, registerModeVars, globalVars>>

\* CommandEsc (<Esc>, <C-c>, <C-[>), run once whatever the number of cursors.
CommandEsc ==
    /\ currentMode \in {"Visual", "VisualLine", "VisualBlock", "Normal"}
    /\ IF currentMode = "Normal" /\ Len(cursors) <= 1
       THEN UNCHANGED <<modeVars, cursors>> /\ logged' = {}
       ELSE /\ AwaitSetCurrentMode("Normal")
            /\ IF Len(cursors) <= 1
               THEN /\ cursors' = CursorsAfterSet(cursors, <<cursors[1]>>)
                    /\ logged' = LoggedBySet(<<cursors[1]>>)
               ELSE UNCHANGED cursors /\ logged' = {}
    /\ lastCall' = Call("CommandEsc", <<>>, NoPos)
    /\ UNCHANGED <<doc, isFakeMultiCursor, transformations, pendingVars, asyncVars>>
    /\ UNCHANGED <<macro, registerVars, changeVars, symbolVars, registerModeVars, globalVars>>

\* ------------------------------------------------------- the cursor set

NextCursors ==
    \/ \E value \in InputLists : SetCursors(value)
    \/ \E p \in InputPositions : SetCursorStartPosition(p)
    \/ \E p \in InputPositions : SetCursorStopPosition(p)
    \/ \E c \in InputCursors : PushCursor(c)
    \/ CommandVisualBlockMode
    \/ ActionGoToInsertVisualBlockMode
    \/ ActionChangeInVisualBlockMode
    \/ CommandEsc

\* The cursor set does not depend on the input-method switcher: none is loaded.
InitCursors == Init /\ ~hasSwitcher /\ registers = NoRegisters

SpecCursors == InitCursors /\ [][NextCursors]_vars

\* ------------------------------------------------ claims: the cursor set

Unique(cs) == \A i, j \in 1 .. Len(cs) : i # j => cs[i] # cs[j]

Elements(cs) == {cs[i] : i \in 1 .. Len(cs)}

\* The index at which x first occurs in the list.
FirstIndex(cs, x) == CHOOSE i \in 1 .. Len(cs) : cs[i] = x /\ \A j \in 1 .. (i - 1) : cs[j] # x

InvalidPositionWarnings ==
    {"invalid cursor position", "invalid cursor start position", "invalid cursor stop position"}

\* C1: assigning an empty list to cursors logs a warning and leaves the cursor
\* set exactly as it was before the assignment.
C1_EmptyAssignmentRejected ==
    [][(lastCall'.op = "set cursors" /\ lastCall'.cursorsArg = <<>>)
          => (cursors' = cursors /\ logged' = {"empty cursors"})]_vars

\* An empty list was assigned while the set held several cursors.
C1_Witness ==
    /\ lastCall.op = "set cursors"
    /\ lastCall.cursorsArg = <<>>
    /\ Len(cursors) > 1

\* C2: in every reachable state the cursor set holds at least one cursor, also
\* after the visual-block I and c/s commands pushed onto the live array and
\* assigned cursors.slice(1).
C2_CursorsNeverEmpty == Len(cursors) >= 1

\* Visual-block I skipped every line of the block, so cursors.slice(1) was empty.
C2_Witness ==
    /\ lastCall.op = "ActionGoToInsertVisualBlockMode"
    /\ "empty cursors" \in logged
    /\ Len(cursors) = 1

\* C3: assigning a non-empty list leaves one cursor per distinct (start, stop)
\* pair of the list, in the order of first occurrence in the list.
C3_DedupFirstSeenOrder ==
    (lastCall.op = "set cursors" /\ lastCall.cursorsArg # <<>>) =>
        /\ Elements(cursors) = Elements(lastCall.cursorsArg)
        /\ Unique(cursors)
        /\ \A i, j \in 1 .. Len(cursors) :
               i < j => FirstIndex(lastCall.cursorsArg, cursors[i])
                            < FirstIndex(lastCall.cursorsArg, cursors[j])

\* A list [A, B, A] was assigned and the set is [A, B].
C3_Witness ==
    /\ lastCall.op = "set cursors"
    /\ Len(lastCall.cursorsArg) = 3
    /\ lastCall.cursorsArg[1] = lastCall.cursorsArg[3]
    /\ lastCall.cursorsArg[1] # lastCall.cursorsArg[2]
    /\ cursors = <<lastCall.cursorsArg[1], lastCall.cursorsArg[2]>>

\* C4 as stated: in every reachable state no two cursors are structurally equal.
C4_AlwaysUnique == Unique(cursors)

\* The calls that end by assigning a list to cursors.
BulkAssignments ==
    {"set cursors", "CommandVisualBlockMode", "ActionGoToInsertVisualBlockMode",
     "ActionChangeInVisualBlockMode"}

\* C4 (amended): right after a bulk assignment that was not rejected as empty no
\* two cursors are structurally equal; position assignments and in-place pushes
\* do not restore this.
C4_UniqueAfterBulkAssignment ==
    (lastCall.op \in BulkAssignments /\ "empty cursors" \notin logged) => Unique(cursors)

\* A bulk assignment dropped a duplicate of the list it was given.
C4_Witness ==
    /\ lastCall.op = "set cursors"
    /\ Len(lastCall.cursorsArg) > Len(cursors)
    /\ Len(cursors) > 1

\* C5 as stated: when an invalid position is assigned the previous cursor state
\* is retained.
C5_InvalidAssignmentRetainsState ==
    [][(logged' \cap InvalidPositionWarnings # {}) => cursors' = cursors]_vars

\* C5 (amended): an invalid position assigned through cursorStartPosition,
\* cursorStopPosition or the cursors setter is logged and stored all the same.
C5_InvalidAssignmentLoggedAndStored ==
    /\ (lastCall.op = "set cursorStartPosition" /\ ~PositionIsValid(lastCall.posArg[1])) =>
           (cursors[1].start = lastCall.posArg[1] /\ logged = {"invalid cursor start position"})
    /\ (lastCall.op = "set cursorStopPosition" /\ ~PositionIsValid(lastCall.posArg[1])) =>
           (cursors[1].stop = lastCall.posArg[1] /\ logged = {"invalid cursor stop position"})
    /\ (lastCall.op = "set cursors"
          /\ \E i \in 1 .. Len(lastCall.cursorsArg) : ~CursorIsValid(lastCall.cursorsArg[i])) =>
           (Elements(lastCall.cursorsArg) = Elements(cursors)
              /\ logged = {"invalid cursor position"})

\* An invalid start position was assigned and is now the first cursor's start.
C5_Witness ==
    /\ lastCall.op = "set cursorStartPosition"
    /\ ~PositionIsValid(cursors[1].start)
    /\ cursors[1].start = lastCall.posArg[1]

\* --------------------------------------------- commands and the switcher

\* The mode commands with v registered for every mode and no way back.
ModeCommandsWithoutExit ==
    {[name |-> "CommandVisualMode", key |-> "v",
      modes |-> {"Normal", "Visual", "VisualLine", "VisualBlock"}, to |-> "Visual"],
     [name |-> "CommandVisualBlockMode", key |-> "<C-v>",
      modes |-> {"Normal", "Visual", "VisualLine"}, to |-> "VisualBlock"],
     [name |-> "CommandExitVisualBlockMode", key |-> "<C-v>",
      modes |-> {"VisualBlock"}, to |-> "Normal"],
     [name |-> "CommandVisualLineMode", key |-> "V",
      modes |-> {"Normal", "Visual", "VisualBlock"}, to |-> "VisualLine"],
     [name |-> "CommandExitVisualLineMode", key |-> "V",
      modes |-> {"VisualLine"}, to |-> "Normal"]}

\* The commands that only switch the mode, each awaiting setCurrentMode:
\* CommandExitVisualMode, CommandVisualMode, CommandVisualBlockMode,
\* CommandExitVisualBlockMode, CommandVisualLineMode, CommandExitVisualLineMode.
ModeCommands ==
    {[name |-> "CommandExitVisualMode", key |-> "v", modes |-> {"Visual"}, to |-> "Normal"],
     [name |-> "CommandVisualMode", key |-> "v",
      modes |-> {"Normal", "VisualLine", "VisualBlock"}, to |-> "Visual"],
     [name |-> "CommandVisualBlockMode", key |-> "<C-v>",
      modes |-> {"Normal", "Visual", "VisualLine"}, to |-> "VisualBlock"],
     [name |-> "CommandExitVisualBlockMode", key |-> "<C-v>",
      modes |-> {"VisualBlock"}, to |-> "Normal"],
     [name |-> "CommandVisualLineMode", key |-> "V",
      modes |-> {"Normal", "Visual", "VisualBlock"}, to |-> "VisualLine"],
     [name |-> "CommandExitVisualLineMode", key |-> "V",
      modes |-> {"VisualLine"}, to |-> "Normal"]}

\* An entry of recordedState.actionsRun: the action's class and keysPressed.
Action(name, keys) == [name |-> name, keysPressed |-> keys]

\* The key handler appends every action it resolves while a recording is in
\* progress, the one that ends the recording excepted, to macro.actionsRun.
RecordAction(a) ==
    /\ macro.recording =>
           (IF IsUpper(macro.key) THEN Len(macro.before.actionsRun) ELSE 0)
               + Len(macro.actionsRun) < MaxRecorded
    /\ macro' = IF macro.recording /\ a.name # "CommandQuitRecordMacro"
                THEN [macro EXCEPT !.actionsRun = Append(@, a)]
                ELSE macro

Switch(to, awaited) == [to |-> to, awaited |-> awaited]

\* The key handler takes the next key only when no exec is outstanding.
\* A mode command starts: setCurrentMode runs up to its await of the switcher;
\* without a switcher nothing is awaited and the mode is set before exec resolves.
BeginModeCommand(cmd) ==
    /\ execState = "idle"
    /\ currentMode \in cmd.modes
    /\ running' = cmd.name
    /\ IF hasSwitcher
       THEN /\ pendingSwitches' = Append(pendingSwitches, Switch(cmd.to, TRUE))
            /\ execState' = "awaiting"
            /\ UNCHANGED modeVars
       ELSE /\ AwaitSetCurrentMode(cmd.to)
            /\ execState' = "resolved"
            /\ UNCHANGED pendingSwitches
    /\ Len(actionsRun) < MaxActions
    /\ actionsRun' = Append(actionsRun, Action(cmd.name, <<cmd.key>>))
    /\ isCompleteAction' = (cmd.name # "CommandVisualMode")
    /\ lastCall' = Call(cmd.name, <<>>, NoPos)
    /\ logged' = {}
    /\ UNCHANGED <<doc, cursors, isFakeMultiCursor, transformations, count, operatorCount,
                   registerName, operator, hasSwitcher>>
    /\ RecordAction(Action(cmd.name, <<cmd.key>>))
    /\ UNCHANGED <<registerVars, changeVars, symbolVars, registerModeVars, globalVars>>

\* IncrementDecrementNumberAction.getSearchRanges: the lines searched for a
\* number, one entry per range.
SearchRangeLines ==
    LET a == cursors[1].start
        b == cursors[1].stop
        first == Min(a.line, b.line)
        last == Max(a.line, b.line)
    IN CASE currentMode = "Normal" -> <<b.line>>
         [] currentMode = "Visual" ->
                <<first>> \o [i \in 1 .. Max(0, last - first - 1) |-> first + i] \o <<last>>
         [] OTHER -> [i \in 1 .. (last - first + 1) |-> first + i - 1]

ReplaceText(l) == [type |-> "replaceText", line |-> l]
MoveCursor(l) == [type |-> "moveCursor", line |-> l]

\* The transformations of one exec; `hits` are the ranges in which the
\* document's text holds a number at or after the start of the range.
IncrementTransformations(hits) ==
    LET ranges == SearchRangeLines
        perRange(i) ==
            IF i \in hits /\ LineLength(ranges[i]) > 0
            THEN <<ReplaceText(ranges[i])>> \o
                 (IF currentMode = "Normal" THEN <<MoveCursor(ranges[i])>> ELSE <<>>)
            ELSE <<>>
        RECURSIVE upTo(_)
        upTo(i) == IF i = 0 THEN <<>> ELSE upTo(i - 1) \o perRange(i)
    IN upTo(Len(ranges)) \o
       (IF currentMode \in {"Visual", "VisualLine", "VisualBlock"}
        THEN <<MoveCursor(ranges[1])>> ELSE <<>>)

\* What the last statement of the exec leaves behind: with `awaited` the exec
\* is suspended until the switcher answers, without it the exec returns at once.
ExecStateAfterSetMode(awaited) == IF awaited THEN "awaiting" ELSE "resolved"

\* IncrementDecrementNumberAction.exec (<C-a>, <C-x>, g<C-a>, g<C-x>): the
\* numbers are replaced and, last, setCurrentMode(Mode.Normal) is called and
\* its promise dropped.
IncrementDecrementNumberAction ==
    /\ execState = "idle"
    /\ currentMode \in {"Normal", "Visual", "VisualLine", "VisualBlock"}
    /\ Len(pendingSwitches) < MaxPending
    /\ running' = "IncrementDecrementNumberAction"
    /\ \E hits \in SUBSET (1 .. Len(SearchRangeLines)) :
           transformations' = transformations \o IncrementTransformations(hits)
    /\ IF hasSwitcher
       THEN /\ pendingSwitches' = Append(pendingSwitches, Switch("Normal", FALSE))
            /\ execState' = ExecStateAfterSetMode(FALSE)
            /\ UNCHANGED modeVars
       ELSE /\ AwaitSetCurrentMode("Normal")
            /\ execState' = "resolved"
            /\ UNCHANGED pendingSwitches
    /\ Len(actionsRun) < MaxActions
    /\ actionsRun' = Append(actionsRun, Action("IncrementDecrementNumberAction", <<"<C-a>">>))
    /\ isCompleteAction' = TRUE
    /\ lastCall' = Call("IncrementDecrementNumberAction", <<>>, NoPos)
    /\ logged' = {}
    /\ UNCHANGED <<doc, cursors, isFakeMultiCursor, count, operatorCount, registerName,
                   operator, hasSwitcher>>
    /\ UNCHANGED <<macro, registerVars, changeVars, symbolVars, registerModeVars, globalVars>>

\* The modes handed to setCurrentMode by a direct call.
SetModes == {"Normal", "Insert", "SearchInProgressMode", "undefined"}

\* setCurrentMode that takes whatever it is given.
ModeIsRejectedNever(mode) == FALSE

\* setCurrentMode: `mode === undefined` throws before anything else happens.
ModeIsRejected(mode) == mode = "undefined"

\* await vimState.setCurrentMode(mode), called on the state directly: the
\* promise rejects for undefined; otherwise the call is suspended on the
\* switcher when there is one and assigns the mode when there is none.
SetCurrentMode(mode) ==
    /\ execState = "idle"
    /\ running' = "setCurrentMode"
    /\ IF ModeIsRejected(mode)
       THEN /\ execState' = "rejected"
            /\ UNCHANGED <<modeVars, pendingSwitches>>
       ELSE IF hasSwitcher
            THEN /\ pendingSwitches' = Append(pendingSwitches, Switch(mode, TRUE))
                 /\ execState' = "awaiting"
                 /\ UNCHANGED modeVars
            ELSE /\ AwaitSetCurrentMode(mode)
                 /\ execState' = "resolved"
                 /\ UNCHANGED pendingSwitches
    /\ lastCall' = Call("setCurrentMode(" \o mode \o ")", <<>>, NoPos)
    /\ logged' = {}
    /\ UNCHANGED <<doc, cursors, isFakeMultiCursor, transformations, pendingVars, hasSwitcher>>
    /\ UNCHANGED <<macro, registerVars, changeVars, symbolVars, registerModeVars, globalVars>>

RemoveAt(q, i) == [j \in 1 .. (Len(q) - 1) |-> IF j < i THEN q[j] ELSE q[j + 1]]

\* switchInputMethod resolves: the suspended setCurrentMode goes on to assign
\* the mode; an exec that awaited it resolves.
SwitchInputMethodResolves(i) ==
    /\ i \in 1 .. Len(pendingSwitches)
    /\ AwaitSetCurrentMode(pendingSwitches[i].to)
    /\ pendingSwitches' = RemoveAt(pendingSwitches, i)
    /\ execState' = IF pendingSwitches[i].awaited THEN "resolved" ELSE execState
    /\ UNCHANGED <<doc, cursors, isFakeMultiCursor, transformations, pendingVars,
                   hasSwitcher, running, logged, lastCall>>
    /\ UNCHANGED <<macro, registerVars, changeVars, symbolVars, registerModeVars, globalVars>>

\* switchInputMethod rejects: setCurrentMode rejects before assigning anything;
\* an exec that awaited it rejects, a dropped promise is lost.
SwitchInputMethodRejects(i) ==
    /\ i \in 1 .. Len(pendingSwitches)
    /\ pendingSwitches' = RemoveAt(pendingSwitches, i)
    /\ execState' = IF pendingSwitches[i].awaited THEN "rejected" ELSE execState
    /\ UNCHANGED <<doc, cursors, modeVars, isFakeMultiCursor, transformations, pendingVars,
                   hasSwitcher, running, logged, lastCall>>
    /\ UNCHANGED <<macro, registerVars, changeVars, symbolVars, registerModeVars, globalVars>>

\* The key handler is told the outcome of the exec and is ready for the next
\* key; after a complete action (or a failed one) it starts a fresh pending
\* command, after an incomplete one it keeps the pending command.
ReportedToHandler ==
    /\ execState \in {"resolved", "rejected"}
    /\ execState' = "idle"
    /\ running' = "none"
    /\ IF isCompleteAction \/ execState = "rejected"
       THEN /\ transformations' = <<>>
            /\ count' = 0
            /\ operatorCount' = 0
            /\ actionsRun' = <<>>
            /\ registerName' = "undefined"
            /\ operator' = "undefined"
       ELSE UNCHANGED <<transformations, count, operatorCount, actionsRun, registerName,
                        operator>>
    /\ UNCHANGED <<doc, cursors, modeVars, isFakeMultiCursor, isCompleteAction, hasSwitcher,
                   pendingSwitches, logged, lastCall>>
    /\ UNCHANGED <<macro, registerVars, changeVars, symbolVars, registerModeVars>>

\* The report of a command where no command that . repeats is modelled.
CommandReported == ReportedToHandler /\ UNCHANGED globalVars

NextMode ==
    \/ \E cmd \in ModeCommands : BeginModeCommand(cmd)
    \/ IncrementDecrementNumberAction
    \/ \E mode \in SetModes : SetCurrentMode(mode)
    \/ \E i \in 1 .. MaxPending + 1 : SwitchInputMethodResolves(i)
    \/ \E i \in 1 .. MaxPending + 1 : SwitchInputMethodRejects(i)
    \/ CommandReported

SpecMode == Init /\ [][NextMode]_vars

\* -------------------------------------------------- claims: mode changes

\* C6: when the exec of <C-a> / <C-x> has resolved, currentMode is Normal,
\* whatever the input-method switcher awaited inside setCurrentMode does.
C6_NormalWhenIncrementResolved ==
    (running = "IncrementDecrementNumberAction" /\ execState = "resolved")
        => currentMode = "Normal"

\* C17: setCurrentMode(undefined) rejects and changes nothing: currentMode,
\* returnToInsertAfterCommand and firstVisibleLineBeforeSearch keep their
\* values and the input-method switcher is not called.
C17_UndefinedModeRejected ==
    [][(execState = "idle" /\ running' = "setCurrentMode"
           /\ lastCall'.op = "setCurrentMode(undefined)") =>
          /\ execState' = "rejected"
          /\ currentMode' = currentMode
          /\ returnToInsertAfterCommand' = returnToInsertAfterCommand
          /\ firstVisibleLineBeforeSearch' = firstVisibleLineBeforeSearch
          /\ pendingSwitches' = pendingSwitches]_vars

\* With a switcher loaded and a search in progress setCurrentMode(undefined)
\* was called: it rejected and the first visible line is still remembered.
C17_Witness ==
    /\ running = "setCurrentMode"
    /\ lastCall.op = "setCurrentMode(undefined)"
    /\ execState = "rejected"
    /\ hasSwitcher
    /\ currentMode = "SearchInProgressMode"
    /\ firstVisibleLineBeforeSearch \in Lines

\* ---------------------------------------------------------- cancellation

\* VimState.isMultiCursor
IsMultiCursor == Len(cursors) > 1

\* The modes of the model in which CommandEsc is registered.
EscModes == {"Visual", "VisualLine", "VisualBlock", "Normal"}

\* An early return that looks at the number of cursors only.
EscHasNothingToDoWithOneCursor == ~IsMultiCursor

\* CommandEsc.exec returns after closing vscode's notifications, without
\* calling setCurrentMode: Normal mode with a single cursor.
EscHasNothingToDo == currentMode = "Normal" /\ ~IsMultiCursor

\* The statements after `await vimState.setCurrentMode(Mode.Normal)`: with a
\* single cursor, cursors = [cursors[0]].
EscKeepsFirstCursor ==
    IF ~IsMultiCursor
    THEN /\ cursors' = CursorsAfterSet(cursors, <<cursors[1]>>)
         /\ logged' = LoggedBySet(<<cursors[1]>>)
    ELSE /\ UNCHANGED cursors
         /\ logged' = {}

\* The key handler runs CommandEsc (<Esc>, <C-c>, <C-[>): the exec returns
\* early, or calls setCurrentMode(Mode.Normal) and is suspended on the
\* switcher when there is one.
ExecCommandEsc ==
    /\ execState = "idle"
    /\ currentMode \in EscModes
    /\ Len(pendingSwitches) < MaxPending
    /\ running' = "CommandEsc"
    /\ IF EscHasNothingToDo
       THEN /\ execState' = "resolved"
            /\ logged' = {}
            /\ UNCHANGED <<modeVars, pendingSwitches, cursors>>
       ELSE IF hasSwitcher
            THEN /\ pendingSwitches' = Append(pendingSwitches, Switch("Normal", TRUE))
                 /\ execState' = "awaiting"
                 /\ logged' = {}
                 /\ UNCHANGED <<modeVars, cursors>>
            ELSE /\ AwaitSetCurrentMode("Normal")
                 /\ EscKeepsFirstCursor
                 /\ execState' = "resolved"
                 /\ UNCHANGED pendingSwitches
    /\ Len(actionsRun) < MaxActions
    /\ actionsRun' = Append(actionsRun, Action("CommandEsc", <<"<Esc>">>))
    /\ isCompleteAction' = TRUE
    /\ lastCall' = Call("CommandEsc", <<>>, NoPos)
    /\ UNCHANGED <<doc, isFakeMultiCursor, transformations, count, operatorCount,
                   registerName, operator, hasSwitcher>>
    /\ RecordAction(Action("CommandEsc", <<"<Esc>">>))
    /\ UNCHANGED <<registerVars, changeVars, symbolVars, registerModeVars, globalVars>>

\* switchInputMethod resolves while the exec of CommandEsc awaits it: the mode
\* is assigned and the exec goes on to its last statement. Any other suspended
\* setCurrentMode resolves as it does for every command.
CancelSwitchResolves(i) ==
    /\ i \in 1 .. Len(pendingSwitches)
    /\ IF pendingSwitches[i].awaited /\ running = "CommandEsc"
       THEN /\ AwaitSetCurrentMode("Normal")
            /\ EscKeepsFirstCursor
            /\ pendingSwitches' = RemoveAt(pendingSwitches, i)
            /\ execState' = "resolved"
            /\ UNCHANGED <<doc, isFakeMultiCursor, transformations, pendingVars,
                           hasSwitcher, running, lastCall>>
            /\ UNCHANGED <<macro, registerVars, changeVars, symbolVars, registerModeVars, globalVars>>
       ELSE SwitchInputMethodResolves(i)

\* The cursors an extension command adds while the editor is in use.
CancelCursors == {Caret(Pos(1, 1)), Cursor(Pos(0, 1), Pos(1, 1))}

NextCancel ==
    \/ \E cmd \in ModeCommands : BeginModeCommand(cmd)
    \/ IncrementDecrementNumberAction
    \/ ExecCommandEsc
    \/ \E c \in CancelCursors : PushCursor(c)
    \/ \E i \in 1 .. MaxPending + 1 : CancelSwitchResolves(i)
    \/ \E i \in 1 .. MaxPending + 1 : SwitchInputMethodRejects(i)
    \/ CommandReported

InitCancel == Init /\ registers = NoRegisters

SpecCancel == InitCancel /\ [][NextCancel]_vars

\* --------------------------------------------------- claims: cancellation

DigitKeys == {"0", "1", "2", "3", "9"}

\* parseInt(key, 10) of a one-digit key
ParseInt(k) ==
    CASE k = "0" -> 0 [] k = "1" -> 1 [] k = "2" -> 2 [] k = "3" -> 3 [] k = "4" -> 4
      [] k = "5" -> 5 [] k = "6" -> 6 [] k = "7" -> 7 [] k = "8" -> 8 [] k = "9" -> 9

\* The characters typed after the register key.
RegisterKeys == {"a", "Z", "!"}

\* Register.isValidRegister: letters, digits and the special registers.
IsValidRegister(ch) ==
    ch \in {"a", "b", "z", "A", "B", "Z", "0", "1", "2", "3", "4", "5", "6", "7", "8", "9",
            "\"", "*", "+", "-", "_", ".", ":", "%", "#", "/"}

\* The operators typed in the model.
OperatorKeys == {"d"}

\* BaseAction.doesActionApply / couldActionApply: the mode is one of the
\* action's modes (the keys are those of the action by construction).
BaseDoesActionApply(modes) == currentMode \in modes
BaseCouldActionApply(modes) == currentMode \in modes

NumberModes == {"Normal", "Visual", "VisualLine", "VisualBlock"}

\* CommandNumber.doesActionApply without its test for a leading zero.
NumberDoesActionApplyAnyDigit(key) == BaseDoesActionApply(NumberModes)

\* CommandNumber.doesActionApply
NumberDoesActionApply(key) ==
    LET isZero == key = "0"
    IN BaseDoesActionApply(NumberModes) /\ ((isZero /\ count > 0) \/ ~isZero)

\* CommandNumber.couldActionApply
NumberCouldActionApply(key) ==
    LET isZero == key = "0"
    IN BaseCouldActionApply(NumberModes) /\ ((isZero /\ count > 0) \/ ~isZero)

IsNumber(a) == a.name = "CommandNumber"

\* CommandNumber.exec reading actionsRun[length - 1], the digit itself, as the
\* action before it.
CountAfterNumberLookingAtItself(key, run) ==
    LET num == ParseInt(key)
    IN IF operatorCount > 0
       THEN IF ~IsNumber(run[Len(run)])
            THEN operatorCount * num
            ELSE count * 10 + num * operatorCount
       ELSE count * 10 + num

\* CommandNumber.exec adding the digit without the shift by ten.
CountAfterNumberWithoutShift(key, run) ==
    LET num == ParseInt(key)
    IN IF operatorCount > 0
       THEN IF Len(run) < 2 \/ ~IsNumber(run[Len(run) - 1])
            THEN operatorCount * num
            ELSE count * 10 + num * operatorCount
       ELSE count + num

\* CommandNumber.exec: the count after the digit; `run` is actionsRun, which
\* already ends with this CommandNumber.
CountAfterNumber(key, run) ==
    LET num == ParseInt(key)
    IN IF operatorCount > 0
       THEN IF Len(run) < 2 \/ ~IsNumber(run[Len(run) - 1])
            THEN operatorCount * num
            ELSE count * 10 + num * operatorCount
       ELSE count * 10 + num

\* CommandNumber (<number>)
CommandNumber(key) ==
    /\ execState = "idle"
    /\ NumberDoesActionApply(key)
    /\ Len(actionsRun) < MaxActions
    /\ actionsRun' = Append(actionsRun, Action("CommandNumber", <<key>>))
    /\ count' = CountAfterNumber(key, actionsRun')
    /\ isCompleteAction' = FALSE
    /\ running' = "CommandNumber"
    /\ execState' = "resolved"
    /\ lastCall' = Call("CommandNumber", <<>>, NoPos)
    /\ logged' = {}
    /\ UNCHANGED <<doc, cursors, modeVars, isFakeMultiCursor, transformations, operatorCount,
                   registerName, operator, hasSwitcher, pendingSwitches>>
    /\ RecordAction(Action("CommandNumber", <<key>>))
    /\ UNCHANGED <<registerVars, changeVars, symbolVars, registerModeVars, globalVars>>

\* An operator key in Normal mode: the operator waits for its motion and the
\* count typed so far is stored in operatorCount.
OperatorPressed(key) ==
    /\ execState = "idle"
    /\ currentMode = "Normal"
    /\ operator = "undefined"
    /\ Len(actionsRun) < MaxActions
    /\ actionsRun' = Append(actionsRun, Action("BaseOperator", <<key>>))
    /\ operator' = key
    /\ operatorCount' = count
    /\ isCompleteAction' = FALSE
    /\ running' = "BaseOperator"
    /\ execState' = "resolved"
    /\ lastCall' = Call("BaseOperator", <<>>, NoPos)
    /\ logged' = {}
    /\ UNCHANGED <<doc, cursors, modeVars, isFakeMultiCursor, transformations, count,
                   registerName, hasSwitcher, pendingSwitches>>
    /\ UNCHANGED <<macro, registerVars, changeVars, symbolVars, registerModeVars, globalVars>>

\* CommandRegister.exec with isCompleteAction left false for every character.
RegisterCompletesAlwaysOpen(ch) == FALSE

\* CommandRegister.exec: isCompleteAction of the action after exec.
RegisterCompletes(ch) == IF IsValidRegister(ch) THEN FALSE ELSE TRUE

\* CommandRegister.exec storing the character whatever it is.
RegisterNameAfterAnyCharacter(ch) == ch

\* CommandRegister.exec: recordedState.registerName after exec.
RegisterNameAfter(ch) == IF IsValidRegister(ch) THEN ch ELSE registerName

\* CommandRegister (" <character>)
CommandRegister(ch) ==
    /\ execState = "idle"
    /\ BaseDoesActionApply({"Normal", "Visual", "VisualLine", "VisualBlock"})
    /\ Len(actionsRun) < MaxActions
    /\ actionsRun' = Append(actionsRun, Action("CommandRegister", <<"\"", ch>>))
    /\ registerName' = RegisterNameAfter(ch)
    /\ isCompleteAction' = RegisterCompletes(ch)
    /\ running' = "CommandRegister"
    /\ execState' = "resolved"
    /\ lastCall' = Call("CommandRegister", <<>>, NoPos)
    /\ logged' = {}
    /\ UNCHANGED <<doc, cursors, modeVars, isFakeMultiCursor, transformations, count,
                   operatorCount, operator, hasSwitcher, pendingSwitches>>
    /\ RecordAction(Action("CommandRegister", <<"\"", ch>>))
    /\ UNCHANGED <<registerVars, changeVars, symbolVars, registerModeVars, globalVars>>

NextPending ==
    \/ \E key \in DigitKeys : CommandNumber(key)
    \/ \E key \in OperatorKeys : OperatorPressed(key)
    \/ \E ch \in RegisterKeys : CommandRegister(ch)
    \/ CommandReported

\* The pending command depends neither on the document nor on the switcher.
InitPending == Init /\ ~hasSwitcher /\ doc = <<2, 1>> /\ registers = NoRegisters

SpecPending == InitPending /\ [][NextPending]_vars

\* ------------------------------------------- claims: the pending command

Last(q) == q[Len(q)]

\* The number written by a list of digit actions, most significant first.
RECURSIVE Pow10(_)
Pow10(n) == IF n = 0 THEN 1 ELSE 10 * Pow10(n - 1)

RECURSIVE SumOver(_, _)
SumOver(f, n) == IF n = 0 THEN 0 ELSE f[n] + SumOver(f, n - 1)

NumberTyped(digits) ==
    SumOver([i \in 1 .. Len(digits) |->
                ParseInt(digits[i].keysPressed[1]) * Pow10(Len(digits) - i)], Len(digits))

\* The digits at the end of actionsRun.
TrailingDigits(run) ==
    LET k == CHOOSE n \in 0 .. Len(run) :
                 /\ \A i \in (Len(run) - n + 1) .. Len(run) : IsNumber(run[i])
                 /\ (n < Len(run) => ~IsNumber(run[Len(run) - n]))
    IN SubSeq(run, Len(run) - k + 1, Len(run))

\* C7: with no operator count in effect every digit d sets count to
\* count * 10 + d, so the digits of a number typed from count 0 leave count
\* equal to that number (register selections and an operator typed without a
\* count do not disturb it).
C7_CountIsNumberTyped ==
    (operatorCount = 0
       /\ \A i \in 1 .. Len(actionsRun) :
              actionsRun[i].name \in {"CommandNumber", "CommandRegister", "BaseOperator"})
        => count = NumberTyped(SelectSeq(actionsRun, IsNumber))

\* Three digits, one of them a zero, were typed from count 0.
C7_Witness ==
    /\ operatorCount = 0
    /\ Len(actionsRun) = 3
    /\ \A i \in 1 .. 3 : IsNumber(actionsRun[i])
    /\ actionsRun[2].keysPressed = <<"0">>
    /\ count > 100

\* C8: with operatorCount c > 0 stored by an operator, after every digit of a
\* number N typed after the operator count equals c * N.
C8_CountIsProductWithOperatorCount ==
    (operatorCount > 0 /\ actionsRun # <<>> /\ IsNumber(Last(actionsRun)))
        => count = operatorCount * NumberTyped(TrailingDigits(actionsRun))

\* 2 d 3 1 was typed and count is 62.
C8_Witness ==
    /\ Len(actionsRun) = 4
    /\ actionsRun[1].keysPressed = <<"2">>
    /\ actionsRun[2].name = "BaseOperator"
    /\ actionsRun[3].keysPressed = <<"3">>
    /\ actionsRun[4].keysPressed = <<"1">>
    /\ operatorCount = 2
    /\ count = 62

\* C9: CommandNumber neither applies nor could apply to the key 0 while count
\* is 0, applies to 0 once count is nonzero, and applies to every nonzero digit
\* whatever the count; so no 0 is ever run as the first digit of a count.
C9_ZeroIsDigitOnlyAfterNonzeroCount ==
    /\ \A key \in DigitKeys :
           /\ NumberDoesActionApply(key) = (currentMode \in NumberModes /\ (key # "0" \/ count > 0))
           /\ NumberCouldActionApply(key) = (currentMode \in NumberModes /\ (key # "0" \/ count > 0))
    /\ (actionsRun # <<>> /\ IsNumber(actionsRun[1])) => actionsRun[1].keysPressed # <<"0">>

\* A zero was run as a digit and brought count back to 0, so that the key 0
\* no longer applies while 1 does.
C9_Witness ==
    /\ count = 0
    /\ actionsRun # <<>>
    /\ Last(actionsRun) = Action("CommandNumber", <<"0">>)
    /\ ~NumberDoesActionApply("0")
    /\ NumberDoesActionApply("1")

\* C10 as stated: after a character that is no valid register the
\* register-selection action has isCompleteAction false.
C10_InvalidRegisterLeavesActionOpen ==
    (running = "CommandRegister" /\ ~IsValidRegister(Last(actionsRun).keysPressed[2]))
        => isCompleteAction = FALSE

\* C10 (amended): after a character that is no valid register isCompleteAction
\* of the register-selection action is true, so the command ends there; after
\* a valid register it stays false and the action awaits the rest of the command.
C10_InvalidRegisterCompletesAction ==
    running = "CommandRegister"
        => isCompleteAction = ~IsValidRegister(Last(actionsRun).keysPressed[2])

\* The register key was followed by a character that is no register.
C10_Witness ==
    /\ running = "CommandRegister"
    /\ Last(actionsRun).keysPressed = <<"\"", "!">>
    /\ isCompleteAction

\* C11: the register-selection action sets registerName to the pressed
\* character when it is a valid register and stays open (isCompleteAction
\* false); for a character that is no valid register it leaves registerName
\* as it was; in both cases count and operator are left as they were.
C11_RegisterSelectionFrame ==
    [][(execState = "idle" /\ running' = "CommandRegister") =>
          LET ch == Last(actionsRun').keysPressed[2] IN
          /\ count' = count
          /\ operator' = operator
          /\ operatorCount' = operatorCount
          /\ IF IsValidRegister(ch)
             THEN registerName' = ch /\ isCompleteAction' = FALSE
             ELSE registerName' = registerName]_vars

\* With a count, an operator and register a pending, the register key was
\* followed by a character that is no register: a is still selected.
C11_Witness ==
    /\ running = "CommandRegister"
    /\ Last(actionsRun).keysPressed = <<"\"", "!">>
    /\ registerName = "a"
    /\ count = 2
    /\ operator = "d"

\* ------------------------------------------------------------- macros

\* The keys typed after q, after @ and after the register key, and the digits
\* typed as a count.
RecordKeys == {"a", "A"}
ExecuteKeys == {"a", "A", "B", "!"}
MacroRegisterKeys == {"a"}
MacroCountKeys == {"2", "3"}

MacroModes == {"Normal", "Visual", "VisualLine"}

\* A digit of the count typed before a command.
CountPrefix(key) ==
    /\ count * 10 + ParseInt(key) <= MaxCount
    /\ CommandNumber(key)

\* <C-v> typed in Normal mode.
EnterVisualBlock ==
    \E cmd \in ModeCommands :
        /\ cmd.name = "CommandVisualBlockMode"
        /\ BeginModeCommand(cmd)

\* v or V typed: the modes in which a macro is invoked.
EnterVisualMode ==
    \E cmd \in ModeCommands :
        /\ cmd.to \in {"Visual", "VisualLine"}
        /\ BeginModeCommand(cmd)

\* The register key followed by a register name.
SelectRegister(ch) == CommandRegister(ch)

\* CommandRecordMacro.exec: what the registers hold after q <key>.
RegistersAfterRecordStarts(key) ==
    LET register == Lower(key)
    IN IF ~IsUpper(key) \/ ~RegisterHas(register)
       THEN RegisterPut(register, MacroContent(<<>>), FALSE)
       ELSE registers

\* A recording named by the key as it was typed.
NewRecordingNamedByKey(key) ==
    [recording |-> TRUE, registerName |-> key, actionsRun |-> <<>>,
     key |-> key, before |-> registers[Lower(key)]]

\* vimState.macro after record-start: a new RecordedState named by the
\* lower-cased key (`key` and `before` remember how the recording started).
NewRecording(key) ==
    [recording |-> TRUE, registerName |-> Lower(key), actionsRun |-> <<>>,
     key |-> key, before |-> registers[Lower(key)]]

\* CommandRecordMacro (q <alpha>, q <number>, q "); while a recording is in
\* progress the key q alone is CommandQuitRecordMacro, so this one starts
\* only when none is.
CommandRecordMacro(key) ==
    /\ execState = "idle"
    /\ BaseDoesActionApply(MacroModes)
    /\ ~macro.recording
    /\ Len(actionsRun) < MaxActions
    /\ actionsRun' = Append(actionsRun, Action("CommandRecordMacro", <<"q", key>>))
    /\ macro' = NewRecording(key)
    /\ registers' = RegistersAfterRecordStarts(key)
    /\ registerName' = IF ~IsUpper(key) \/ ~RegisterHas(Lower(key))
                       THEN Lower(key) ELSE registerName
    /\ isCompleteAction' = TRUE
    /\ running' = "CommandRecordMacro"
    /\ execState' = "resolved"
    /\ lastCall' = Call("CommandRecordMacro", <<>>, NoPos)
    /\ logged' = {}
    /\ UNCHANGED <<doc, cursors, modeVars, isFakeMultiCursor, transformations, count,
                   operatorCount, operator, hasSwitcher, pendingSwitches,
                   lastInvokedMacro, statusBar, changeVars, symbolVars, registerModeVars, globalVars>>

\* CommandQuitRecordMacro.exec: the recorded actions are concatenated to the
\* RecordedState the register holds, when it holds one.
RegistersAfterRecordEnds(m) ==
    LET existingMacro == registers[m.registerName]
    IN IF existingMacro.kind = "macro"
       THEN [registers EXCEPT ![m.registerName] =
                MacroContent(existingMacro.actionsRun \o m.actionsRun)]
       ELSE registers

\* CommandQuitRecordMacro.doesActionApply (couldActionApply has the same test)
QuitRecordDoesActionApply == BaseDoesActionApply(MacroModes) /\ macro.recording

\* CommandQuitRecordMacro (q)
CommandQuitRecordMacro ==
    /\ execState = "idle"
    /\ QuitRecordDoesActionApply
    /\ Len(actionsRun) < MaxActions
    /\ actionsRun' = Append(actionsRun, Action("CommandQuitRecordMacro", <<"q">>))
    /\ registers' = RegistersAfterRecordEnds(macro)
    /\ macro' = NoMacro
    /\ isCompleteAction' = TRUE
    /\ running' = "CommandQuitRecordMacro"
    /\ execState' = "resolved"
    /\ lastCall' = Call("CommandQuitRecordMacro", <<>>, NoPos)
    /\ logged' = {}
    /\ UNCHANGED <<doc, cursors, modeVars, isFakeMultiCursor, transformations, count,
                   operatorCount, registerName, operator, hasSwitcher, pendingSwitches,
                   lastInvokedMacro, statusBar, changeVars, symbolVars, registerModeVars, globalVars>>

\* ActionDeleteVisualBlock (d, x, X in VisualBlock), run once whatever the
\* number of cursors: the block's part of every line is deleted and put, as
\* text, into the selected register and the unnamed one.
ActionDeleteVisualBlock ==
    /\ execState = "idle"
    /\ BaseDoesActionApply({"VisualBlock"})
    /\ Len(actionsRun) < MaxActions
    /\ actionsRun' = Append(actionsRun, Action("ActionDeleteVisualBlock", <<"d">>))
    /\ RecordAction(Action("ActionDeleteVisualBlock", <<"d">>))
    /\ LET block == LinesInBlock(cursors[1])
           topLeft == VisualBlockTopLeft(cursors[1].stop, cursors[1].start)
       IN /\ transformations' = transformations \o
                 [i \in 1 .. Len(block) |-> DeleteRange(block[i].start, block[i].end)]
          /\ registers' = RegisterPut(registerName,
                                      TextContent([i \in 1 .. Len(block) |-> block[i].text]),
                                      TRUE)
          /\ cursors' = CursorsAfterSet(cursors, <<Caret(topLeft)>>)
          /\ logged' = LoggedBySet(<<Caret(topLeft)>>)
    /\ running' = "ActionDeleteVisualBlock"
    /\ IF hasSwitcher
       THEN /\ pendingSwitches' = Append(pendingSwitches, Switch("Normal", TRUE))
            /\ execState' = "awaiting"
            /\ UNCHANGED modeVars
       ELSE /\ AwaitSetCurrentMode("Normal")
            /\ execState' = "resolved"
            /\ UNCHANGED pendingSwitches
    /\ isCompleteAction' = TRUE
    /\ registerModeField' = DefinedRegisterMode(BlockWise)
    /\ lastCall' = Call("ActionDeleteVisualBlock", <<>>, NoPos)
    /\ UNCHANGED <<doc, isFakeMultiCursor, count, operatorCount, registerName, operator,
                   hasSwitcher, lastInvokedMacro, statusBar, changeVars, symbolVars, globalVars>>

MacroReplay(register) == [type |-> "macro", register |-> register, replay |-> "contentChange"]

\* runsOnceForEachCountPrefix of the two commands that invoke a macro.
RunsOnceForEachCountPrefixNever(name) == FALSE

RunsOnceForEachCountPrefix(name) ==
    name \in {"CommandExecuteLastMacro", "CommandExecuteMacro"}

\* BaseCommand.execCount: the number of times exec is run for the command.
TimesToRepeat(name) ==
    IF RunsOnceForEachCountPrefix(name) THEN (IF count = 0 THEN 1 ELSE count) ELSE 1

\* The transformations of `times` runs of an exec that adds `added` each time.
RECURSIVE Repeated(_, _)
Repeated(added, times) == IF times = 0 THEN <<>> ELSE added \o Repeated(added, times - 1)

\* CommandExecuteMacro.exec adding its transformation whatever the register holds.
ExecuteMacroAddsUnguarded(register) == <<MacroReplay(register)>>

\* CommandExecuteMacro.exec: the transformations one run adds.
ExecuteMacroAdds(register) ==
    IF RegisterHas(register) THEN <<MacroReplay(register)>> ELSE <<>>

InvalidRegisterName(register) == <<"E354", "Invalid register name", register>>

\* CommandExecuteMacro.exec staying silent about the register name.
ExecuteMacroDisplaysNothing(register) == statusBar

\* CommandExecuteMacro.exec: what the status bar shows after one run.
ExecuteMacroDisplays(register) ==
    IF ~IsValidRegister(register) THEN InvalidRegisterName(register) ELSE statusBar

\* CommandExecuteMacro (@ <character>)
CommandExecuteMacro(ch) ==
    /\ execState = "idle"
    /\ BaseDoesActionApply(MacroModes)
    /\ Len(actionsRun) < MaxActions
    /\ actionsRun' = Append(actionsRun, Action("CommandExecuteMacro", <<"@", ch>>))
    /\ RecordAction(Action("CommandExecuteMacro", <<"@", ch>>))
    /\ LET register == Lower(ch)
       IN /\ statusBar' = ExecuteMacroDisplays(register)
          /\ transformations' = transformations \o
                 Repeated(ExecuteMacroAdds(register), TimesToRepeat("CommandExecuteMacro"))
    /\ isCompleteAction' = TRUE
    /\ running' = "CommandExecuteMacro"
    /\ execState' = "resolved"
    /\ lastCall' = Call("CommandExecuteMacro", <<>>, NoPos)
    /\ logged' = {}
    /\ UNCHANGED <<doc, cursors, modeVars, isFakeMultiCursor, count, operatorCount,
                   registerName, operator, hasSwitcher, pendingSwitches, registers,
                   lastInvokedMacro, changeVars, symbolVars, registerModeVars, globalVars>>

\* CommandExecuteLastMacro.exec: the transformations one run adds.
ExecuteLastMacroAdds ==
    IF lastInvokedMacro.defined THEN <<MacroReplay(lastInvokedMacro.registerName)>> ELSE <<>>

\* CommandExecuteLastMacro (@ @)
CommandExecuteLastMacro ==
    /\ execState = "idle"
    /\ BaseDoesActionApply(MacroModes)
    /\ Len(actionsRun) < MaxActions
    /\ actionsRun' = Append(actionsRun, Action("CommandExecuteLastMacro", <<"@", "@">>))
    /\ RecordAction(Action("CommandExecuteLastMacro", <<"@", "@">>))
    /\ transformations' = transformations \o
           Repeated(ExecuteLastMacroAdds, TimesToRepeat("CommandExecuteLastMacro"))
    /\ isCompleteAction' = TRUE
    /\ running' = "CommandExecuteLastMacro"
    /\ execState' = "resolved"
    /\ lastCall' = Call("CommandExecuteLastMacro", <<>>, NoPos)
    /\ logged' = {}
    /\ UNCHANGED <<doc, cursors, modeVars, isFakeMultiCursor, count, operatorCount,
                   registerName, operator, hasSwitcher, pendingSwitches, registerVars,
                   changeVars, symbolVars, registerModeVars, globalVars>>

\* The key handler executes the first transformation left of the command: a
\* macro replay looks the register up once more, runs the actions it holds as
\* if typed, and remembers the macro as the one invoked last.
RunMacroTransformation ==
    /\ execState = "resolved"
    /\ transformations # <<>>
    /\ Head(transformations).type = "macro"
    /\ transformations' = Tail(transformations)
    /\ LET register == Head(transformations).register
       IN lastInvokedMacro' =
              IF RegisterHas(register) /\ registers[register].kind = "macro"
              THEN [defined |-> TRUE, registerName |-> register]
              ELSE lastInvokedMacro
    /\ UNCHANGED <<doc, cursors, modeVars, isFakeMultiCursor, pendingVars, asyncVars,
                   logged, lastCall, registers, macro, statusBar, changeVars, symbolVars, registerModeVars, globalVars>>

\* The command is reported once its macro replays have run.
MacroCommandReported ==
    /\ \A i \in 1 .. Len(transformations) : transformations[i].type # "macro"
    /\ CommandReported

\* Recording: q <register>, the keys recorded (<C-v>, the register key, d), q.
NextRecord ==
    \/ EnterVisualBlock
    \/ \E ch \in MacroRegisterKeys : SelectRegister(ch)
    \/ ActionDeleteVisualBlock
    \/ \E key \in RecordKeys : CommandRecordMacro(key)
    \/ CommandQuitRecordMacro
    \/ CommandReported

\* Macros depend neither on the switcher nor on the text of the document.
InitRecord == Init /\ ~hasSwitcher /\ doc = <<2, 1>>

SpecRecord == InitRecord /\ [][NextRecord]_vars

\* Invoking: a count, @ <register> or @ @, and the replays the handler runs.
NextInvoke ==
    \/ EnterVisualMode
    \/ \E key \in MacroCountKeys : CountPrefix(key)
    \/ \E ch \in ExecuteKeys : CommandExecuteMacro(ch)
    \/ CommandExecuteLastMacro
    \/ RunMacroTransformation
    \/ MacroCommandReported

InitInvoke == Init /\ ~hasSwitcher /\ doc = <<2, 1>>

SpecInvoke == InitInvoke /\ [][NextInvoke]_vars

\* ----------------------------------------------------- claims: macros

\* The step in which the exec of the command `name` runs.
Executes(name) == execState = "idle" /\ running' = name

\* C12 as stated: after a recording into a lower-case register ends, the
\* register holds exactly the recorded actions.
C12_LowercaseRecordingOverwrites ==
    [][(Executes("CommandQuitRecordMacro") /\ ~IsUpper(macro.key)) =>
          registers'[macro.registerName] = MacroContent(macro.actionsRun)]_vars

\* C13 as stated: after a recording started with an upper-case name ends, the
\* register holds what it held when the recording started (text or recorded
\* actions) followed by the recorded actions.
C13_UppercaseRecordingAppends ==
    [][(Executes("CommandQuitRecordMacro") /\ IsUpper(macro.key)
           /\ macro.before.kind # "none") =>
          /\ registers'[macro.registerName].text = macro.before.text
          /\ registers'[macro.registerName].actionsRun =
                 macro.before.actionsRun \o macro.actionsRun]_vars

\* The register named by the key typed after @ in the step that runs the command.
InvokedRegister == Lower(Last(actionsRun').keysPressed[2])

\* The step adds no transformation, shows no error and moves neither the
\* mode nor the cursors.
NothingHappens ==
    /\ transformations' = transformations
    /\ statusBar' = statusBar
    /\ currentMode' = currentMode
    /\ cursors' = cursors

\* C14: @ <r> for a valid register that holds nothing, and @ @ when no macro
\* was invoked before, add no transformation, show no error and change
\* neither the mode nor the cursors, whatever the count.
C14_NothingToReplayIsNoOp ==
    [][/\ (Executes("CommandExecuteMacro") /\ IsValidRegister(InvokedRegister)
              /\ ~RegisterHas(InvokedRegister)) => NothingHappens
       /\ (Executes("CommandExecuteLastMacro") /\ ~lastInvokedMacro.defined)
              => NothingHappens]_vars

\* 2 @ B was typed in Visual mode while register b held nothing (and a held a
\* macro): the command resolved without a transformation.
C14_Witness ==
    /\ running = "CommandExecuteMacro"
    /\ execState = "resolved"
    /\ Last(actionsRun).keysPressed = <<"@", "B">>
    /\ count = 2
    /\ currentMode = "Visual"
    /\ registers["a"].kind = "macro"
    /\ transformations = <<>>
    /\ statusBar = <<>>

\* C15: @ <x> with x no valid register name shows the InvalidRegisterName
\* error in the status bar, adds no macro replay and leaves mode, cursors and
\* registers as they were.
C15_InvalidRegisterReported ==
    [][(Executes("CommandExecuteMacro") /\ ~IsValidRegister(InvokedRegister)) =>
          /\ statusBar' = InvalidRegisterName(InvokedRegister)
          /\ transformations' = transformations
          /\ currentMode' = currentMode
          /\ cursors' = cursors
          /\ registers' = registers]_vars

\* 2 @ ! was typed while register a held a macro: the error is shown and no
\* replay is pending.
C15_Witness ==
    /\ running = "CommandExecuteMacro"
    /\ Last(actionsRun).keysPressed = <<"@", "!">>
    /\ count = 2
    /\ registers["a"].kind = "macro"
    /\ statusBar = InvalidRegisterName("!")
    /\ transformations = <<>>

\* The replays of one command: `times` macro transformations for the register.
Replays(register, times) == [i \in 1 .. times |-> MacroReplay(register)]

ContentChange(offset, length, text) ==
    [range |-> [start |-> Pos(0, offset), end |-> Pos(0, offset + length)],
     rangeOffset |-> offset, rangeLength |-> length, text |-> text]

\* The changes handed to addChanges: typing f at 0 and oo at 1, replacing one
\* character at 1, replacing two at 2, deleting the character at 0, and
\* replacing one character far to the right.
InputChanges ==
    {ContentChange(0, 0, <<"f">>), ContentChange(1, 0, <<"o", "o">>),
     ContentChange(1, 1, <<"x">>), ContentChange(2, 2, <<"z">>),
     ContentChange(0, 1, <<>>), ContentChange(5, 1, <<"q">>)}

\* The lists handed to addChanges in one call.
InputChangeLists == UNION {[1 .. n -> InputChanges] : n \in 0 .. MaxBatch}

\* String.prototype.slice(from, to) for indices that are not negative.
Slice(text, from, to) == SubSeq(text, Min(from, Len(text)) + 1, Min(to, Len(text)))

\* merge's first test without `second.rangeLength === 0`.
MergesByConcatenationOnlyAdjacent(first, second) ==
    first.rangeOffset + Len(first.text) = second.rangeOffset

\* merge: the test for simple concatenation.
MergesByConcatenation(first, second) ==
    \/ first.rangeOffset + Len(first.text) = second.rangeOffset
    \/ second.rangeLength = 0

\* merge: the test for `second` replacing part of `first`.
MergesBySplice(first, second) ==
    /\ first.rangeOffset <= second.rangeOffset
    /\ Len(first.text) >= second.rangeLength

\* merge giving the merged change the second's rangeOffset.
MergeTakingSecondOffset(first, second) ==
    IF MergesByConcatenation(first, second)
    THEN <<[text |-> first.text \o second.text, range |-> first.range,
            rangeOffset |-> second.rangeOffset, rangeLength |-> first.rangeLength]>>
    ELSE IF MergesBySplice(first, second)
    THEN LET start == second.rangeOffset - first.rangeOffset
             end == start + second.rangeLength
             text == Slice(first.text, 0, start) \o second.text
                         \o Slice(first.text, end, Len(first.text))
         IN <<[text |-> text, range |-> first.range,
               rangeOffset |-> second.rangeOffset, rangeLength |-> first.rangeLength]>>
    ELSE <<>>

\* merge(first, second): the merged change in a list of one, or the empty
\* list for undefined.
Merge(first, second) ==
    IF MergesByConcatenation(first, second)
    THEN <<[text |-> first.text \o second.text, range |-> first.range,
            rangeOffset |-> first.rangeOffset, rangeLength |-> first.rangeLength]>>
    ELSE IF MergesBySplice(first, second)
    THEN LET start == second.rangeOffset - first.rangeOffset
             end == start + second.rangeLength
             text == Slice(first.text, 0, start) \o second.text
                         \o Slice(first.text, end, Len(first.text))
         IN <<[text |-> text, range |-> first.range,
               rangeOffset |-> first.rangeOffset, rangeLength |-> first.rangeLength]>>
    ELSE <<>>

\* The loop of compressChanges forgetting `prev` when the merge fails.
RECURSIVE CompressDroppingUnmerged(_, _, _)
CompressDroppingUnmerged(compressed, prev, rest) ==
    IF rest = <<>> THEN Append(compressed, prev)
    ELSE LET merged == Merge(prev, Head(rest))
         IN IF merged # <<>>
            THEN CompressDroppingUnmerged(compressed, merged[1], Tail(rest))
            ELSE CompressDroppingUnmerged(compressed, Head(rest), Tail(rest))

\* The loop of compressChanges from a given `prev` on.
RECURSIVE Compress(_, _, _)
Compress(compressed, prev, rest) ==
    IF rest = <<>> THEN Append(compressed, prev)
    ELSE LET merged == Merge(prev, Head(rest))
         IN IF merged # <<>>
            THEN Compress(compressed, merged[1], Tail(rest))
            ELSE Compress(Append(compressed, prev), Head(rest), Tail(rest))

\* compressChanges: the list that replaces contentChanges.
CompressChanges(changes) ==
    IF changes = <<>> THEN <<>> ELSE Compress(<<>>, Head(changes), Tail(changes))

\* DocumentContentChangeAction.addChanges(changes)
AddChanges(changes) ==
    /\ Len(addedChanges) + Len(changes) <= MaxChanges
    /\ contentChanges' = CompressChanges(contentChanges \o changes)
    /\ addedChanges' = addedChanges \o changes
    /\ lastCall' = Call("addChanges", <<>>, NoPos)
    /\ logged' = {}
    /\ UNCHANGED <<doc, cursors, modeVars, isFakeMultiCursor, transformations, pendingVars,
                   asyncVars, macro, registerVars, symbolVars, registerModeVars, globalVars>>

\* new vscode.Range(a, b): the two positions in document order.
IsBefore(a, b) == a.line < b.line \/ (a.line = b.line /\ a.character <= b.character)
Range(a, b) == IF IsBefore(a, b) THEN [start |-> a, end |-> b] ELSE [start |-> b, end |-> a]

\* The left boundary of the recorded changes: the start of the first change,
\* or its end when the first change deleted one character.
OriginalLeftBoundary(changes) ==
    IF changes[1].text = <<>> /\ changes[1].rangeLength = 1
    THEN changes[1].range.end ELSE changes[1].range.start

\* A replay that keeps the recorded positions.
TranslateKeepingRecorded(diffPos, position, boundary) == diffPos

\* translate(diffPos): a recorded position made relative to `position`.
Translate(diffPos, position, boundary) ==
    LET lineOffset == diffPos.line - boundary.line
        char == IF lineOffset = 0
                THEN position.character + diffPos.character - boundary.character
                ELSE diffPos.character
    IN Pos(Max(position.line + lineOffset, 0), Max(char, 0))

\* Position.isAfter and laterOf
IsAfter(a, b) == ~IsBefore(a, b)
LaterOf(a, b) == IF IsAfter(a, b) THEN a ELSE b

InsertText(position, text) == [type |-> "insertText", position |-> position, text |-> text]
ReplaceTextIn(range, text) ==
    [type |-> "replaceText", start |-> range.start, end |-> range.end, text |-> text]

\* The loop of DocumentContentChangeAction.exec over the changes still to
\* replay; the texts of the model have no line breaks and every change is on
\* the line of the left boundary.
RECURSIVE ReplayEach(_, _, _, _)
ReplayEach(changes, position, boundary, rightBoundary) ==
    IF changes = <<>> THEN <<>>
    ELSE LET change == Head(changes)
             replaceRange == Range(Translate(change.range.start, position, boundary),
                                   Translate(change.range.end, position, boundary))
             newRightBoundary ==
                 Pos(replaceRange.start.line, replaceRange.start.character + Len(change.text))
         IN IF IsAfter(replaceRange.start, rightBoundary)
            THEN ReplayEach(Tail(changes), position, boundary, rightBoundary)
            ELSE <<IF replaceRange.start = replaceRange.end
                   THEN InsertText(replaceRange.start, change.text)
                   ELSE ReplaceTextIn(replaceRange, change.text)>>
                 \o ReplayEach(Tail(changes), position, boundary,
                               LaterOf(rightBoundary, newRightBoundary))

\* The transformations of one exec at `position`.
Replayed(changes, position) ==
    IF Len(changes) = 0 THEN <<>>
    ELSE ReplayEach(changes, position, OriginalLeftBoundary(changes), position)

\* The positions at which the changes are replayed.
ReplayPositions == {Pos(0, 0), Pos(0, 3), Pos(1, 1)}

\* DocumentContentChangeAction.exec(position, vimState), run when an insertion
\* is repeated.
DocumentContentChangeExec(position) ==
    /\ execState = "idle"
    /\ running' = "DocumentContentChangeAction"
    /\ execState' = "resolved"
    /\ transformations' = transformations \o Replayed(contentChanges, position)
    /\ isCompleteAction' = TRUE
    /\ lastCall' = Call("DocumentContentChangeAction", <<>>, <<position>>)
    /\ logged' = {}
    /\ UNCHANGED <<doc, cursors, modeVars, isFakeMultiCursor, count, operatorCount,
                   actionsRun, registerName, operator, hasSwitcher, pendingSwitches,
                   macro, registerVars, changeVars, symbolVars, registerModeVars, globalVars>>

NextChanges ==
    \/ \E changes \in InputChangeLists : AddChanges(changes)
    \/ \E position \in ReplayPositions : DocumentContentChangeExec(position)
    \/ CommandReported

\* The compression depends on nothing but the changes.
InitChanges ==
    Init /\ ~hasSwitcher /\ doc = <<2, 1>> /\ registers = NoRegisters

SpecChanges == InitChanges /\ [][NextChanges]_vars

\* ---------------------------------------------- claims: content changes

\* The changes the step hands to addChanges.
NewChanges == SubSeq(addedChanges', Len(addedChanges) + 1, Len(addedChanges'))

\* The step adds one change to a list that already has an entry: the last
\* entry and the new change are the two consecutive changes compared.
AddsOneChange == contentChanges # <<>> /\ Len(NewChanges) = 1

WithLast(list, change) == [list EXCEPT ![Len(list)] = change]

\* The merged change keeps range, rangeOffset and rangeLength of the first.
MergedWithText(first, text) == [first EXCEPT !.text = text]

\* C18: when the first change ends where the second starts, or the second
\* replaces nothing, the two become one change with the first's range,
\* rangeOffset and rangeLength and the two texts concatenated.
C18_MergedByConcatenation ==
    [][AddsOneChange =>
          LET first == Last(contentChanges)
              second == NewChanges[1]
          IN (first.rangeOffset + Len(first.text) = second.rangeOffset
                \/ second.rangeLength = 0) =>
                 contentChanges' =
                     WithLast(contentChanges,
                              MergedWithText(first, first.text \o second.text))]_vars

\* f typed at offset 0 and oo typed at offset 1 are one insertion of foo at 0.
C18_Witness ==
    /\ addedChanges = <<ContentChange(0, 0, <<"f">>), ContentChange(1, 0, <<"o", "o">>)>>
    /\ contentChanges = <<ContentChange(0, 0, <<"f", "o", "o">>)>>

\* The range the second change replaces lies inside the text the first inserted.
ReplacesInside(first, second) ==
    /\ first.rangeOffset <= second.rangeOffset
    /\ second.rangeOffset + second.rangeLength <= first.rangeOffset + Len(first.text)

\* The first's text with the part the second replaces exchanged for the
\* second's text.
Spliced(first, second) ==
    LET start == second.rangeOffset - first.rangeOffset
    IN SubSeq(first.text, 1, start) \o second.text
           \o SubSeq(first.text, start + second.rangeLength + 1, Len(first.text))

\* C19 as stated: two consecutive changes that are not concatenated are
\* merged by splice exactly when the second's range lies inside the text the
\* first inserted, and are kept apart otherwise.
C19_SplicedExactlyWhenInside ==
    [][AddsOneChange =>
          LET first == Last(contentChanges)
              second == NewChanges[1]
          IN ~(first.rangeOffset + Len(first.text) = second.rangeOffset
                 \/ second.rangeLength = 0) =>
                 contentChanges' =
                     IF ReplacesInside(first, second)
                     THEN WithLast(contentChanges,
                                   MergedWithText(first, Spliced(first, second)))
                     ELSE Append(contentChanges, second)]_vars

\* One change added to a list of entries: it is merged into the last entry
\* or becomes an entry of its own after it.
AddedToEntries(entries, change) ==
    IF entries = <<>> THEN <<change>>
    ELSE IF Merge(Last(entries), change) # <<>>
         THEN WithLast(entries, Merge(Last(entries), change)[1])
         ELSE Append(entries, change)

RECURSIVE AddedOneByOne(_, _)
AddedOneByOne(entries, changes) ==
    IF changes = <<>> THEN entries
    ELSE AddedOneByOne(AddedToEntries(entries, Head(changes)), Tail(changes))

\* C20: every change handed to addChanges is merged into the entry before it
\* or becomes an entry of its own; the entries there were stay as they are
\* and in their order, none is dropped, and new entries follow in the order
\* in which the changes were added.
C20_ChangesKeptInOrder ==
    [][addedChanges' # addedChanges =>
          /\ contentChanges' = AddedOneByOne(contentChanges, NewChanges)
          /\ Len(contentChanges') >= Len(contentChanges)
          /\ \A i \in 1 .. (Len(contentChanges) - 1) :
                 contentChanges'[i] = contentChanges[i]]_vars

\* Three changes were added of which none could be merged with the entry
\* before it: the three are the entries, in the order added.
C20_Witness ==
    /\ Len(addedChanges) = 3
    /\ contentChanges = addedChanges
    /\ addedChanges[1] # addedChanges[2]

\* ------------------------------------------------------------ x and <Del>

\* Position.getLeftIfEOL(): one column to the left from the end of a line
\* that has text.
GetLeftIfEOL(p) ==
    IF p.character > 0 /\ p.character >= LineLength(p.line)
    THEN Pos(p.line, p.character - 1) ELSE p

\* ActionDeleteChar.exec at `position`: nothing on an empty line, otherwise
\* DeleteOperator.run from the position to count - 1 columns to its right.
DeletedByDeleteChar(position) ==
    LET timesToRepeat == IF count = 0 THEN 1 ELSE count
    IN IF LineLength(position.line) = 0 THEN <<>>
       ELSE <<DeleteRange(position, GetLeftIfEOL(GetRight(position, timesToRepeat - 1)))>>

\* ActionDeleteChar.execCount with a single cursor: the exec runs once at the
\* cursor's stop; the operator puts the text it deletes into the register and
\* the exec ends in Normal mode; the resulting cursor is assigned.
DeleteCharExecCount ==
    LET position == cursors[1].stop
        deleted == DeletedByDeleteChar(position)
    IN /\ transformations' = transformations \o deleted
       /\ IF deleted = <<>>
          THEN UNCHANGED <<registers, modeVars>>
          ELSE /\ registers' =
                      RegisterPut(registerName,
                                  TextContent(<<deleted[1].end.character
                                                    - deleted[1].start.character + 1>>),
                                  TRUE)
               /\ AwaitSetCurrentMode("Normal")
       /\ cursors' = CursorsAfterSet(cursors, <<cursors[1]>>)
       /\ logged' = LoggedBySet(<<cursors[1]>>)

\* ActionDeleteChar (x)
ActionDeleteChar ==
    /\ execState = "idle"
    /\ BaseDoesActionApply({"Normal"})
    /\ Len(actionsRun) < MaxActions
    /\ actionsRun' = Append(actionsRun, Action("ActionDeleteChar", <<"x">>))
    /\ RecordAction(Action("ActionDeleteChar", <<"x">>))
    /\ DeleteCharExecCount
    /\ isCompleteAction' = TRUE
    /\ running' = "ActionDeleteChar"
    /\ execState' = "resolved"
    /\ lastCall' = Call("ActionDeleteChar", <<>>, NoPos)
    /\ UNCHANGED <<doc, isFakeMultiCursor, count, operatorCount, registerName, operator,
                   hasSwitcher, pendingSwitches, lastInvokedMacro, statusBar, changeVars, symbolVars, registerModeVars, globalVars>>

\* <Del> that clears the count it finds.
CountAfterDeleteKeyCleared(c) == 0

\* ActionDeleteCharWithDeleteKey.execCount: Math.floor(count / 10)
CountAfterDeleteKey(c) == c \div 10

\* ActionDeleteCharWithDeleteKey (<Del>): with a count the last digit of the
\* count goes and the action is left incomplete; without one the execCount of
\* a new ActionDeleteChar runs.
ActionDeleteCharWithDeleteKey ==
    /\ execState = "idle"
    /\ BaseDoesActionApply({"Normal"})
    /\ Len(actionsRun) < MaxActions
    /\ actionsRun' = Append(actionsRun, Action("ActionDeleteCharWithDeleteKey", <<"<Del>">>))
    /\ RecordAction(Action("ActionDeleteCharWithDeleteKey", <<"<Del>">>))
    /\ IF count # 0
       THEN /\ count' = CountAfterDeleteKey(count)
            /\ isCompleteAction' = FALSE
            /\ logged' = {}
            /\ UNCHANGED <<transformations, registers, modeVars, cursors>>
       ELSE /\ DeleteCharExecCount
            /\ isCompleteAction' = TRUE
            /\ UNCHANGED count
    /\ running' = "ActionDeleteCharWithDeleteKey"
    /\ execState' = "resolved"
    /\ lastCall' = Call("ActionDeleteCharWithDeleteKey", <<>>, NoPos)
    /\ UNCHANGED <<doc, isFakeMultiCursor, operatorCount, registerName, operator,
                   hasSwitcher, pendingSwitches, lastInvokedMacro, statusBar, changeVars, symbolVars, registerModeVars, globalVars>>

NextDelete ==
    \/ \E key \in DigitKeys : CommandNumber(key)
    \/ ActionDeleteChar
    \/ ActionDeleteCharWithDeleteKey
    \/ CommandReported

\* No input-method switcher is loaded and no register holds anything.
InitDelete == Init /\ ~hasSwitcher /\ registers = NoRegisters

SpecDelete == InitDelete /\ [][NextDelete]_vars

\* ---------------------------------------------------- claims: x and <Del>

\* C22: <Del> pressed while the pending count c is nonzero leaves the count
\* floor(c / 10), adds no deletion, writes no register and leaves the command
\* incomplete; pressed while the count is 0 it deletes the character under the
\* cursor (nothing on an empty line) and completes the command, as x does.
C22_DeleteKeyRemovesCountDigit ==
    [][Executes("ActionDeleteCharWithDeleteKey") =>
          IF count # 0
          THEN /\ count' = count \div 10
               /\ transformations' = transformations
               /\ registers' = registers
               /\ isCompleteAction' = FALSE
          ELSE /\ count' = 0
               /\ isCompleteAction' = TRUE
               /\ transformations' = transformations \o
                      (IF LineLength(cursors[1].stop.line) = 0 THEN <<>>
                       ELSE <<DeleteRange(cursors[1].stop, cursors[1].stop)>>)]_vars

\* 1 2 <Del> was typed: the count is 1, nothing is deleted and the command is
\* still open.
C22_Witness ==
    /\ running = "ActionDeleteCharWithDeleteKey"
    /\ Len(actionsRun) = 3
    /\ actionsRun[1].keysPressed = <<"1">>
    /\ actionsRun[2].keysPressed = <<"2">>
    /\ count = 1
    /\ transformations = <<>>
    /\ ~isCompleteAction

\* ------------------------------------- claims: the net effect of changes

\* The line the changes are applied to.
DocumentText == <<"a", "b", "c", "d", "e", "f", "g">>

\* A content change applied to a text: the rangeLength characters from
\* rangeOffset on are replaced by the change's text.
ApplyChange(text, change) ==
    Slice(text, 0, change.rangeOffset) \o change.text
        \o Slice(text, change.rangeOffset + change.rangeLength, Len(text))

\* The changes of a list applied first to last, each to the text the one
\* before it left.
RECURSIVE ApplyChanges(_, _)
ApplyChanges(text, changes) ==
    IF changes = <<>> THEN text
    ELSE ApplyChanges(ApplyChange(text, Head(changes)), Tail(changes))

\* C27: the compressed list that addChanges leaves has the net effect of the
\* changes handed in: applied to a document it gives the text that applying
\* the original changes one by one gives.
C27_CompressionPreservesNetEdit ==
    ApplyChanges(DocumentText, contentChanges) = ApplyChanges(DocumentText, addedChanges)

\* C28: compressing the list addChanges left changes nothing, and the list
\* left by several addChanges calls is the list that one call with all the
\* changes leaves.
C28_CompressionIdempotentAndBatchFree ==
    /\ CompressChanges(contentChanges) = contentChanges
    /\ contentChanges = CompressChanges(addedChanges)

\* Three changes were added in at least two calls; the second merged into the
\* first, the third did not merge.
C28_Witness ==
    /\ Len(addedChanges) = 3
    /\ Len(contentChanges) = 2
    /\ contentChanges[1].text = addedChanges[1].text \o addedChanges[2].text
    /\ addedChanges[2].text # <<>>
    /\ contentChanges[2] = addedChanges[3]

\* -------------------------------------------------------- document symbols

\* The number of edits made to the document.
MaxEdits == 2

\* The number of requestDocumentSymbols calls awaiting the provider at once.
MaxRequests == 2

\* The cache tagged with the version the document has when the provider answers.
CachedVersionAtAnswer(request) == version

\* requestDocumentSymbols: the cache is tagged with the version read before
\* the await.
CachedVersion(request) == request.version

\* The document is edited: its version goes up.
EditDocument ==
    /\ version < MaxEdits + 1
    /\ version' = version + 1
    /\ lastCall' = Call("edit", <<>>, NoPos)
    /\ logged' = {}
    /\ UNCHANGED <<documentSymbols, symbolRequests, symbolsReturned>>
    /\ UNCHANGED <<doc, cursors, modeVars, isFakeMultiCursor, transformations, pendingVars,
                   asyncVars, macro, registerVars, changeVars, registerModeVars, globalVars>>

\* requestDocumentSymbols up to its return or its await: the version is read
\* and compared with the cache's; the cache answers, or the provider is asked.
RequestDocumentSymbols ==
    /\ IF version # documentSymbols.version
       THEN /\ Len(symbolRequests) < MaxRequests
            /\ symbolRequests' = Append(symbolRequests, [version |-> version])
            /\ UNCHANGED symbolsReturned
       ELSE /\ symbolsReturned' =
                   [returned |-> TRUE, fromCache |-> TRUE, symbols |-> documentSymbols.symbols]
            /\ UNCHANGED symbolRequests
    /\ lastCall' = Call("requestDocumentSymbols", <<>>, NoPos)
    /\ logged' = {}
    /\ UNCHANGED <<version, documentSymbols>>
    /\ UNCHANGED <<doc, cursors, modeVars, isFakeMultiCursor, transformations, pendingVars,
                   asyncVars, macro, registerVars, changeVars, registerModeVars, globalVars>>

\* TextEditor.getSymbols resolves for the i-th waiting request with the
\* symbols of the text the provider saw, some version between the request and
\* now; the request stores them in the cache and returns them.
GetSymbolsResolves(i) ==
    /\ i \in 1 .. Len(symbolRequests)
    /\ \E symbols \in symbolRequests[i].version .. version :
           /\ documentSymbols' =
                  [version |-> CachedVersion(symbolRequests[i]), symbols |-> symbols]
           /\ symbolsReturned' = [returned |-> TRUE, fromCache |-> FALSE, symbols |-> symbols]
    /\ symbolRequests' = RemoveAt(symbolRequests, i)
    /\ lastCall' = Call("getSymbols resolves", <<>>, NoPos)
    /\ logged' = {}
    /\ UNCHANGED version
    /\ UNCHANGED <<doc, cursors, modeVars, isFakeMultiCursor, transformations, pendingVars,
                   asyncVars, macro, registerVars, changeVars, registerModeVars, globalVars>>

\* TextEditor.getSymbols rejects: the request rejects and the cache is not
\* touched.
GetSymbolsRejects(i) ==
    /\ i \in 1 .. Len(symbolRequests)
    /\ symbolRequests' = RemoveAt(symbolRequests, i)
    /\ lastCall' = Call("getSymbols rejects", <<>>, NoPos)
    /\ logged' = {}
    /\ UNCHANGED <<version, documentSymbols, symbolsReturned>>
    /\ UNCHANGED <<doc, cursors, modeVars, isFakeMultiCursor, transformations, pendingVars,
                   asyncVars, macro, registerVars, changeVars, registerModeVars, globalVars>>

NextSymbols ==
    \/ EditDocument
    \/ RequestDocumentSymbols
    \/ \E i \in 1 .. MaxRequests : GetSymbolsResolves(i)
    \/ \E i \in 1 .. MaxRequests : GetSymbolsRejects(i)

\* The symbols depend on nothing else of the state.
InitSymbols == Init /\ ~hasSwitcher /\ doc = <<2, 1>> /\ registers = NoRegisters

SpecSymbols == InitSymbols /\ [][NextSymbols]_vars

\* ------------------------------------------------ claims: document symbols

\* C23: requestDocumentSymbols asks the symbol provider only when the
\* document's version differs from the cached version, and a request answered
\* from the cache returns symbols that describe the version the document has
\* now, whatever edits and overlapping requests came before.
C23_CacheAnswersCurrentVersion ==
    [][lastCall'.op = "requestDocumentSymbols" =>
          /\ symbolRequests' # symbolRequests => version # documentSymbols.version
          /\ (symbolRequests' = symbolRequests /\ symbolsReturned'.fromCache)
                 => symbolsReturned'.symbols = version]_vars

\* After two edits the cache answered a request with the symbols of version 3
\* while an older request is still waiting for the provider.
C23_Witness ==
    /\ lastCall.op = "requestDocumentSymbols"
    /\ symbolsReturned.fromCache
    /\ symbolsReturned.symbols = 3
    /\ version = 3
    /\ Len(symbolRequests) = 1

\* ------------------------------------------------------ the register mode

\* `if (this._currentRegisterMode)`: undefined and the number 0 are falsy.
IsTruthy(field) == field.defined /\ field.value # 0

\* get currentRegisterMode()
CurrentRegisterMode ==
    IF IsTruthy(registerModeField) THEN registerModeField.value
    ELSE CASE currentMode = "VisualLine" -> LineWise
           [] currentMode = "VisualBlock" -> BlockWise
           [] OTHER -> CharacterWise

\* The values assigned to currentRegisterMode.
InputRegisterModes == {UndefinedRegisterMode} \cup {DefinedRegisterMode(r) : r \in RegisterModes}

\* vimState.currentRegisterMode = registerMode
SetCurrentRegisterMode(registerMode) ==
    /\ registerModeField' = registerMode
    /\ lastCall' = Call("set currentRegisterMode", <<>>, NoPos)
    /\ logged' = {}
    /\ UNCHANGED <<doc, cursors, modeVars, isFakeMultiCursor, transformations, pendingVars,
                   asyncVars, macro, registerVars, changeVars, symbolVars, globalVars>>

NextRegisterMode ==
    \/ \E registerMode \in InputRegisterModes : SetCurrentRegisterMode(registerMode)
    \/ \E cmd \in ModeCommands : BeginModeCommand(cmd)
    \/ CommandReported

\* No input-method switcher is loaded: a mode command sets the mode at once.
InitRegisterMode == Init /\ ~hasSwitcher /\ doc = <<2, 1>> /\ registers = NoRegisters

SpecRegisterMode == InitRegisterMode /\ [][NextRegisterMode]_vars

\* ---------------------------------------------- claims: the register mode

\* C24: once currentRegisterMode was set to CharacterWise, LineWise or
\* BlockWise the getter returns that value in every mode; while it is
\* undefined the getter returns LineWise in VisualLine mode, BlockWise in
\* VisualBlock mode and CharacterWise in every other mode.
C24_GetterReturnsWhatWasSet ==
    IF registerModeField.defined
    THEN CurrentRegisterMode = registerModeField.value
    ELSE CurrentRegisterMode =
             CASE currentMode = "VisualLine" -> LineWise
               [] currentMode = "VisualBlock" -> BlockWise
               [] OTHER -> CharacterWise

\* -------------------------------------------------------------------- J

\* cursorIndex of a transformation that was given none.
UndefinedIndex == 0 - 1

\* Position.getDown(n).line: n lines down, stopping at the last line.
GetDownLine(p, n) == Min(p.line + n, Len(doc) - 1)

\* The loop of execJoinLines over the lines after the first: the lines of the
\* model hold no white space, so a line with text is appended after one space
\* (none when nothing was collected yet) and an empty line adds nothing.
\* `length` is trimmedLinesContent.length and `delta` columnDeltaOffset.
RECURSIVE JoinedLines(_, _, _, _)
JoinedLines(length, delta, i, endLineNumber) ==
    IF i > endLineNumber THEN [length |-> length, delta |-> delta]
    ELSE IF LineLength(i) > 0
         THEN LET insertSpace == IF length = 0 THEN 0 ELSE 1
              IN JoinedLines(length + insertSpace + LineLength(i),
                             LineLength(i) + insertSpace, i + 1, endLineNumber)
         ELSE JoinedLines(length, delta, i + 1, endLineNumber)

\* ActionJoin.execJoinLines(startPosition, position, vimState, count): the
\* transformation it adds, if any, and the caret it sets, if any (then it also
\* awaits setCurrentMode(Mode.Normal)).
ExecJoinLines(startPosition, position, givenCount) ==
    LET n == IF givenCount - 1 = 0 THEN 1 ELSE givenCount - 1
        sameLine == startPosition = position \/ startPosition.line = position.line
        startLineNumber == IF sameLine THEN position.line ELSE startPosition.line
        endLineNumber ==
            IF sameLine /\ position.line + 1 < Len(doc)
            THEN GetDownLine(position, n) ELSE position.line
        deleteStartPosition == Pos(startLineNumber, 0)
        deleteEndPosition == Pos(endLineNumber, LineLength(endLineNumber))
        joined == JoinedLines(LineLength(startPosition.line), 0,
                              startLineNumber + 1, endLineNumber)
        range == Range(deleteStartPosition, deleteEndPosition)
        manual == startPosition # position
    IN IF deleteStartPosition = deleteEndPosition
       THEN [added |-> <<>>, setsCursor |-> FALSE, caret |-> position]
       ELSE [added |-> <<[type |-> "replaceText", text |-> joined.length,
                         start |-> range.start, end |-> range.end,
                         cursorIndex |-> UndefinedIndex,
                         manuallySetCursorPositions |-> manual]>>,
             setsCursor |-> manual,
             caret |-> Pos(startPosition.line, joined.length - joined.delta)]

\* The comparison function handed to sort: positive when a starts after b.
StartsAfter(a, b) ==
    \/ a.start.line > b.start.line
    \/ (a.start.line = b.start.line /\ a.start.character > b.start.character)

\* The cursors taken in the order of the cursor set.
SortedCursorsUnsorted(cs) == {cs}

\* cursors.map(...).sort(...): the cursors in ascending order of their starts.
\* The function never answers 0, so cursors with one start come in an order
\* the engine chooses.
SortedCursors(cs) ==
    {[i \in 1 .. Len(cs) |-> cs[perm[i]]] : perm \in Permutations(1 .. Len(cs))}
        \cap {order \in [1 .. Len(cs) -> Elements(cs)] :
                  \A i, j \in 1 .. Len(cs) : i < j => ~StartsAfter(order[i], order[j])}

\* The loop at the end of an iteration: every text transformation without a
\* cursorIndex gets multicursorIndex.
WithCursorIndex(ts, idx) ==
    [i \in 1 .. Len(ts) |->
        IF ts[i].type = "replaceText" /\ ts[i].cursorIndex = UndefinedIndex
        THEN [ts[i] EXCEPT !.cursorIndex = idx] ELSE ts[i]]

\* ActionJoin.execCount over the cursors still to process; idx is the index
\* of the first of them. The state threaded through the loop: the
\* transformations, resultingCursors, the warnings logged and whether
\* setCurrentMode was called.
RECURSIVE JoinEach(_, _, _)
JoinEach(order, idx, acc) ==
    IF order = <<>> THEN acc
    ELSE LET start == Head(order).start
             stop == Head(order).stop
             join == ExecJoinLines(start, stop, IF count = 0 THEN 1 ELSE count)
             resulting == IF join.setsCursor THEN Caret(join.caret) ELSE Cursor(start, stop)
         IN JoinEach(Tail(order), idx + 1,
                     [transformations |->
                          WithCursorIndex(acc.transformations \o join.added, idx),
                      resultingCursors |-> Append(acc.resultingCursors, resulting),
                      logged |-> acc.logged \cup LoggedBySetPosition(stop, "stop")
                                    \cup LoggedBySetPosition(start, "start")
                                    \cup (IF join.setsCursor
                                          THEN LoggedBySetPosition(join.caret, "stop")
                                                   \cup LoggedBySetPosition(join.caret, "start")
                                          ELSE {}),
                      setsMode |-> acc.setsMode \/ join.setsCursor])

\* ActionJoin (J in Normal mode)
ActionJoin ==
    /\ execState = "idle"
    /\ BaseDoesActionApply({"Normal"})
    /\ Len(actionsRun) < MaxActions
    /\ actionsRun' = Append(actionsRun, Action("ActionJoin", <<"J">>))
    /\ RecordAction(Action("ActionJoin", <<"J">>))
    /\ \E order \in SortedCursors(cursors) :
           LET done == JoinEach(order, 0,
                                [transformations |-> transformations,
                                 resultingCursors |-> <<>>, logged |-> {},
                                 setsMode |-> FALSE])
           IN /\ transformations' = done.transformations
              /\ cursors' = CursorsAfterSet(cursors, done.resultingCursors)
              /\ logged' = done.logged \cup LoggedBySet(done.resultingCursors)
              /\ lastCall' = Call("ActionJoin", done.resultingCursors, NoPos)
              /\ IF done.setsMode THEN AwaitSetCurrentMode("Normal") ELSE UNCHANGED modeVars
    /\ isCompleteAction' = TRUE
    /\ running' = "ActionJoin"
    /\ execState' = "resolved"
    /\ UNCHANGED <<doc, isFakeMultiCursor, count, operatorCount, registerName, operator,
                   hasSwitcher, pendingSwitches, registerVars, changeVars, symbolVars,
                   registerModeVars, globalVars>>

\* The cursors the editor hands over: carets, a selection over two lines and
\* a selection that starts where a caret is.
JoinCursors ==
    {Caret(Pos(0, 0)), Caret(Pos(1, 1)), Cursor(Pos(0, 1), Pos(1, 1)),
     Cursor(Pos(0, 0), Pos(0, 1))}

\* The lists of cursors assigned before J: no cursor twice.
JoinCursorLists ==
    {value \in UNION {[1 .. n -> JoinCursors] : n \in 1 .. MaxInput} :
        \A i, j \in 1 .. Len(value) : i # j => value[i] # value[j]}

\* The digits typed before J.
JoinCountKeys == {"3"}

NextJoin ==
    \/ \E value \in JoinCursorLists : SetCursors(value)
    \/ \E key \in JoinCountKeys : CommandNumber(key)
    \/ ActionJoin
    \/ CommandReported

InitJoin == Init /\ ~hasSwitcher /\ registers = NoRegisters

SpecJoin == InitJoin /\ [][NextJoin]_vars

\* ------------------------------------------------------------- claims: J

\* The transformations a step added.
AddedTransformations ==
    SubSeq(transformations', Len(transformations) + 1, Len(transformations'))

\* C25: J in Normal mode processes the cursors in ascending order of their
\* starts (line, then column): there is such an order of the cursors in which
\* the k-th resulting cursor handed to the cursor set comes from the k-th
\* cursor (the cursor itself, or a caret on the line of its start), as many
\* resulting cursors as cursors, and every transformation added carries the
\* index of the cursor it was added for, in ascending order.
C25_JoinProcessesCursorsInOrder ==
    [][Executes("ActionJoin") =>
          LET resulting == lastCall'.cursorsArg
              added == AddedTransformations
          IN /\ Len(resulting) = Len(cursors)
             /\ \E perm \in Permutations(1 .. Len(cursors)) :
                    /\ \A i, j \in 1 .. Len(cursors) :
                           i < j => ~StartsAfter(cursors[perm[i]], cursors[perm[j]])
                    /\ \A k \in 1 .. Len(cursors) :
                           \/ resulting[k] = cursors[perm[k]]
                           \/ /\ resulting[k].start = resulting[k].stop
                              /\ resulting[k].start.line = cursors[perm[k]].start.line
                    /\ \A i \in 1 .. Len(added) :
                           /\ added[i].cursorIndex \in 0 .. Len(cursors) - 1
                           /\ LET c == cursors[perm[added[i].cursorIndex + 1]]
                              IN /\ IsBefore(added[i].start, Pos(c.start.line, 0))
                                 /\ IsBefore(Pos(c.start.line, 0), added[i].end)
             /\ \A i, j \in 1 .. Len(added) :
                    i < j => added[i].cursorIndex < added[j].cursorIndex]_vars

\* J ran on three cursors that were not in ascending order in the cursor set
\* and added a transformation for each.
C25_Witness ==
    /\ running = "ActionJoin"
    /\ Len(lastCall.cursorsArg) = 3
    /\ Len(transformations) = 3
    /\ transformations[3].cursorIndex = 2
    /\ lastCall.cursorsArg[1].start.line = 0
    /\ lastCall.cursorsArg[3].start.line = 1

\* ------------------------------------------- commands on a visual selection

\* sorted(a, b)
Sorted(a, b) == IF IsBefore(a, b) THEN <<a, b>> ELSE <<b, a>>

\* A replaceText transformation: `text` is the length of the text.
ReplaceRange(text, a, b) ==
    [type |-> "replaceText", text |-> text, start |-> Range(a, b).start,
     end |-> Range(a, b).end, manuallySetCursorPositions |-> TRUE]

\* The first line of the selection replaced up to the end of the selection.
FirstLineEndAtSelectionEnd(start, end) == end

\* ActionReplaceCharacterVisual.exec, first line of a selection of several
\* lines: the range ends at the end of that line.
FirstLineEnd(start, end) == Pos(start.line, LineLength(start.line))

\* ActionReplaceCharacterVisual.exec: the transformations of the loop over the
\* lines of the selection, and the selection's start.
ReplacedInVisual ==
    LET ends == Sorted(cursors[1].start, cursors[1].stop)
        start == IF currentMode = "VisualLine" THEN Pos(ends[1].line, 0) ELSE ends[1]
        lineEnd == IF currentMode = "VisualLine"
                   THEN Pos(ends[2].line, LineLength(ends[2].line)) ELSE ends[2]
        textLength == LineLength(lineEnd.line)
        visualSelectionOffset == IF textLength <= 0 THEN 0 ELSE 1
        end == Pos(lineEnd.line,
                   Min(lineEnd.character, IF textLength > 0 THEN textLength - 1 ELSE 0))
        onLine(lineNum) ==
            IF start.line = end.line
            THEN ReplaceRange(end.character - start.character + 1, start,
                              Pos(end.line, end.character + 1))
            ELSE IF lineNum = start.line
            THEN ReplaceRange(LineLength(lineNum) - start.character, start,
                              FirstLineEnd(start, end))
            ELSE IF lineNum = end.line
            THEN ReplaceRange(end.character + visualSelectionOffset, Pos(end.line, 0),
                              Pos(end.line, end.character + visualSelectionOffset))
            ELSE ReplaceRange(LineLength(lineNum), Pos(lineNum, 0),
                              Pos(lineNum, LineLength(lineNum)))
    IN [added |-> [i \in 1 .. (end.line - start.line + 1) |-> onLine(start.line + i - 1)],
        start |-> start]

\* The part of an exec run by the key handler that every command shares.
HandlerRuns(name, keys) ==
    /\ execState = "idle"
    /\ Len(actionsRun) < MaxActions
    /\ actionsRun' = Append(actionsRun, Action(name, keys))
    /\ RecordAction(Action(name, keys))
    /\ isCompleteAction' = TRUE
    /\ running' = name
    /\ lastCall' = Call(name, <<>>, NoPos)

\* await vimState.setCurrentMode(mode) as the last statement of an exec.
ExecEndsInMode(mode) ==
    IF hasSwitcher
    THEN /\ pendingSwitches' = Append(pendingSwitches, Switch(mode, TRUE))
         /\ execState' = "awaiting"
         /\ UNCHANGED modeVars
    ELSE /\ AwaitSetCurrentMode(mode)
         /\ execState' = "resolved"
         /\ UNCHANGED pendingSwitches

\* ActionReplaceCharacterVisual (r <character> in Visual and VisualLine)
ActionReplaceCharacterVisual ==
    /\ BaseDoesActionApply({"Visual", "VisualLine"})
    /\ HandlerRuns("ActionReplaceCharacterVisual", <<"r", "x">>)
    /\ transformations' = transformations \o ReplacedInVisual.added
    /\ LET start == ReplacedInVisual.start
           moved == CursorsAfterSetStart(CursorsAfterSetStop(cursors, start), start)
       IN /\ cursors' = moved
          /\ logged' = LoggedBySetPosition(start, "stop") \cup LoggedBySetPosition(start, "start")
    /\ ExecEndsInMode("Normal")
    /\ UNCHANGED <<doc, isFakeMultiCursor, count, operatorCount, registerName, operator,
                   hasSwitcher, registerVars, changeVars, symbolVars, registerModeVars, globalVars>>

\* ActionReplaceCharacterVisualBlock.exec: a line whose part of the block is
\* empty is skipped.
ReplacedInVisualBlock ==
    LET block == SelectSeq(LinesInBlock(cursors[1]), LAMBDA e : ~IsBefore(e.end, e.start))
    IN [i \in 1 .. Len(block) |->
           ReplaceRange(block[i].end.character - block[i].start.character,
                        block[i].start, block[i].end)]

\* The exec of a VisualBlock command ends with one caret at the top left of
\* the block.
CaretAtTopLeft ==
    LET topLeft == VisualBlockTopLeft(cursors[1].stop, cursors[1].start)
    IN /\ cursors' = CursorsAfterSet(cursors, <<Caret(topLeft)>>)
       /\ logged' = LoggedBySet(<<Caret(topLeft)>>)

\* ActionReplaceCharacterVisualBlock (r <character> in VisualBlock)
ActionReplaceCharacterVisualBlock ==
    /\ BaseDoesActionApply({"VisualBlock"})
    /\ HandlerRuns("ActionReplaceCharacterVisualBlock", <<"r", "x">>)
    /\ transformations' = transformations \o ReplacedInVisualBlock
    /\ CaretAtTopLeft
    /\ ExecEndsInMode("Normal")
    /\ UNCHANGED <<doc, isFakeMultiCursor, count, operatorCount, registerName, operator,
                   hasSwitcher, registerVars, changeVars, symbolVars, registerModeVars, globalVars>>

\* ActionShiftDVisualBlock.exec: every line of the block is deleted from the
\* block's left edge to the end of the line.
DeletedByShiftD ==
    LET block == LinesInBlock(cursors[1])
    IN [i \in 1 .. Len(block) |->
           LET lineEnd == Pos(block[i].start.line, LineLength(block[i].start.line))
           IN DeleteRange(Range(block[i].start, lineEnd).start,
                          Range(block[i].start, lineEnd).end)]

\* ActionShiftDVisualBlock (D in VisualBlock)
ActionShiftDVisualBlock ==
    /\ BaseDoesActionApply({"VisualBlock"})
    /\ HandlerRuns("ActionShiftDVisualBlock", <<"D">>)
    /\ transformations' = transformations \o DeletedByShiftD
    /\ CaretAtTopLeft
    /\ ExecEndsInMode("Normal")
    /\ UNCHANGED <<doc, isFakeMultiCursor, count, operatorCount, registerName, operator,
                   hasSwitcher, registerVars, changeVars, symbolVars, registerModeVars, globalVars>>

\* The commands of the model that enter a visual mode.
VisualModeCommands == {cmd \in ModeCommands : cmd.to # "Normal"}

NextVisual ==
    \/ \E p \in InputPositions : SetCursorStartPosition(p)
    \/ \E p \in InputPositions : SetCursorStopPosition(p)
    \/ \E cmd \in VisualModeCommands : BeginModeCommand(cmd)
    \/ ActionReplaceCharacterVisual
    \/ ActionReplaceCharacterVisualBlock
    \/ ActionDeleteVisualBlock
    \/ ActionShiftDVisualBlock
    \/ ActionChangeInVisualBlockMode
    \/ CommandReported

InitVisual == Init /\ ~hasSwitcher /\ registers = NoRegisters

SpecVisual == InitVisual /\ [][NextVisual]_vars

\* ------------------------------- claims: commands on a visual selection

\* The commands the claim is about.
VisualCommands ==
    {"ActionReplaceCharacterVisual", "ActionReplaceCharacterVisualBlock",
     "ActionDeleteVisualBlock", "ActionShiftDVisualBlock", "ActionChangeInVisualBlockMode"}

\* Two ranges share text.
Overlap(a, b) ==
    LET ra == Range(a.start, a.end)
        rb == Range(b.start, b.end)
    IN /\ ra.start # rb.end /\ IsBefore(ra.start, rb.end)
       /\ rb.start # ra.end /\ IsBefore(rb.start, ra.end)

\* The lines of the selection of the first cursor.
SelectionLines ==
    Min(cursors[1].start.line, cursors[1].stop.line)
        .. Max(cursors[1].start.line, cursors[1].stop.line)

\* C26: the text transformations one execution of r in Visual or VisualLine
\* mode, or of d/x/X, D, c/s or r in VisualBlock mode, adds for the selection
\* of a single cursor lie each on one line of the selection, no two on the
\* same line, and no two overlap.
C26_RangesDoNotOverlap ==
    [][(lastCall'.op \in VisualCommands /\ lastCall' # lastCall /\ Len(cursors) = 1) =>
          LET added == AddedTransformations
          IN /\ \A i \in 1 .. Len(added) :
                    /\ added[i].type \in {"replaceText", "deleteRange"}
                    /\ added[i].start.line = added[i].end.line
                    /\ added[i].start.line \in SelectionLines
             /\ \A i, j \in 1 .. Len(added) :
                    i # j => /\ added[i].start.line # added[j].start.line
                             /\ ~Overlap(added[i], added[j])]_vars

\* r ran on a Visual selection from line 0 to line 1 of a document whose
\* lines have text and added one replacement per line.
C26_Witness ==
    /\ running = "ActionReplaceCharacterVisual"
    /\ lastCall.op = "ActionReplaceCharacterVisual"
    /\ Len(transformations) = 2
    /\ transformations[1].start = Pos(0, 1)
    /\ transformations[1].end = Pos(0, 2)
    /\ transformations[2].start = Pos(1, 0)
    /\ transformations[2].end = Pos(1, 1)

\* ------------------------------------------------ replayed content changes

\* A recorded position moved by the distance from the recorded left boundary
\* to the position of the replay, not below column 0.
Shifted(recorded, position, boundary) ==
    Pos(position.line, Max(0, recorded.character + position.character - boundary.character))

\* The transformation the claim expects for one change.
ExpectedReplay(change, position, boundary) ==
    LET a == Shifted(change.range.start, position, boundary)
        b == Shifted(change.range.end, position, boundary)
    IN IF a = b THEN [type |-> "insertText", position |-> a, text |-> change.text]
       ELSE [type |-> "replaceText", start |-> a, end |-> b, text |-> change.text]

\* C29: DocumentContentChangeAction.exec at position p adds, in recorded
\* order, one transformation per change it replays, the first change always
\* among them: an insertText when the shifted range is empty and a
\* replaceText otherwise, every recorded position shifted by p minus the
\* recorded left boundary and kept at column 0 or right of it. With no
\* recorded change it adds nothing.
C29_ReplayAtCurrentPosition ==
    [][Executes("DocumentContentChangeAction") =>
          LET position == lastCall'.posArg[1]
              added == AddedTransformations
              boundary ==
                  IF contentChanges[1].text = <<>> /\ contentChanges[1].rangeLength = 1
                  THEN contentChanges[1].range.end ELSE contentChanges[1].range.start
          IN IF contentChanges = <<>> THEN added = <<>>
             ELSE \E replayed \in SUBSET (1 .. Len(contentChanges)) :
                      /\ 1 \in replayed
                      /\ Len(added) = Cardinality(replayed)
                      /\ \A i \in replayed :
                             added[Cardinality({j \in replayed : j <= i})] =
                                 ExpectedReplay(contentChanges[i], position, boundary)]_vars

\* x typed over the character at offset 1 and the character at offset 0
\* deleted were replayed at line 1, column 1: two transformations, the second
\* at column 0.
C29_Witness ==
    /\ running = "DocumentContentChangeAction"
    /\ lastCall.posArg = <<Pos(1, 1)>>
    /\ Len(contentChanges) = 2
    /\ contentChanges[2].rangeOffset = 0
    /\ Len(transformations) = 2
    /\ transformations[1].type = "replaceText"
    /\ transformations[1].start = Pos(1, 1)
    /\ transformations[2].type \in {"insertText", "replaceText"}

\* ------------------------------------------------------ finished recordings

\* `tail` is what the sequence `all` ends with.
IsTailOf(tail, all) ==
    /\ Len(tail) <= Len(all)
    /\ SubSeq(all, Len(all) - Len(tail) + 1, Len(all)) = tail

\* C30 as stated: whenever q ends a recording, the actions recorded in it are
\* the tail of the recorded actions in the register of the recording,
\* whatever the register held before and whatever was written to it since.
C30_FinishedRecordingKept ==
    [][Executes("CommandQuitRecordMacro") =>
          IsTailOf(macro.actionsRun, registers'[macro.registerName].actionsRun)]_vars

\* ------------------------------------------------------- recording sessions

\* C31: macro is defined exactly between a record-start and the next
\* record-stop: the exec of q <key> leaves a fresh recording named by the
\* lower-cased key, the exec of q runs only while a recording is defined and
\* leaves none, and no other step defines or drops the recording.
C31_MacroDefinedWhileRecording ==
    [][/\ Executes("CommandRecordMacro") =>
              /\ macro'.recording
              /\ macro'.actionsRun = <<>>
              /\ macro'.registerName = Lower(Last(actionsRun').keysPressed[2])
       /\ Executes("CommandQuitRecordMacro") => macro.recording /\ ~macro'.recording
       /\ ~(Executes("CommandRecordMacro") \/ Executes("CommandQuitRecordMacro"))
              => macro'.recording = macro.recording]_vars

\* q A ... q was typed: the recording made under the name a has been stopped
\* and its actions are in register a.
C31_Witness ==
    /\ running = "CommandQuitRecordMacro"
    /\ ~macro.recording
    /\ registers["a"].kind = "macro"
    /\ Len(registers["a"].actionsRun) > 0
    /\ Len(actionsRun) >= 2

\* ------------------------------------------------------------------- .

\* The actions of the model whose canBeRepeatedWithDot is true.
RepeatableActions ==
    {"ActionDeleteChar", "ActionDeleteCharWithDeleteKey", "ActionJoin",
     "ActionReplaceCharacterVisual", "ActionReplaceCharacterVisualBlock",
     "ActionDeleteVisualBlock", "ActionShiftDVisualBlock",
     "IncrementDecrementNumberAction"}

\* The report of a command where . is modelled: the key handler stores the
\* pending command of a complete command that can be repeated as
\* globalState.previousFullAction before it starts a fresh one.
RepeatableCommandReported ==
    /\ ReportedToHandler
    /\ previousFullAction' =
           IF /\ execState = "resolved"
              /\ isCompleteAction
              /\ actionsRun # <<>>
              /\ Last(actionsRun).name \in RepeatableActions
           THEN PreviousFullAction(actionsRun)
           ELSE previousFullAction

ReplayRecordedState(recordedState) ==
    [type |-> "replayRecordedState", recordedState |-> recordedState]

\* . that replays once whatever the count.
DotCountIgnored(c) == 1

\* vimState.recordedState.count || 1
DotCount(c) == IF c = 0 THEN 1 ELSE c

\* CommandDot.execCount: the transformations it adds.
DotReplays ==
    IF previousFullAction.defined
    THEN [i \in 1 .. DotCount(count) |-> ReplayRecordedState(previousFullAction)]
    ELSE <<>>

\* CommandDot (.)
CommandDot ==
    /\ HandlerRuns("CommandDot", <<".">>)
    /\ BaseDoesActionApply({"Normal"})
    /\ transformations' = transformations \o DotReplays
    /\ execState' = "resolved"
    /\ logged' = {}
    /\ UNCHANGED <<doc, cursors, modeVars, isFakeMultiCursor, count, operatorCount,
                   registerName, operator, hasSwitcher, pendingSwitches,
                   registerVars, changeVars, symbolVars, registerModeVars, globalVars>>

\* The digits typed before x and .
DotCountKeys == {"1", "2", "3"}

NextDot ==
    \/ \E key \in DotCountKeys : CountPrefix(key)
    \/ ActionDeleteChar
    \/ CommandDot
    \/ RepeatableCommandReported

InitDot == Init /\ ~hasSwitcher /\ registers = NoRegisters

SpecDot == InitDot /\ [][NextDot]_vars

\* ------------------------------------------------------------- claims: .

\* C32: . with count n (no count counting as 1) adds exactly n replays of the
\* stored previous full action when there is one and nothing when there is
\* none, and leaves the stored action as it was.
C32_DotReplaysCountTimes ==
    [][Executes("CommandDot") =>
          /\ previousFullAction' = previousFullAction
          /\ IF previousFullAction.defined
             THEN /\ Len(AddedTransformations) = Max(count, 1)
                  /\ \A i \in 1 .. Len(AddedTransformations) :
                         /\ AddedTransformations[i].type = "replayRecordedState"
                         /\ AddedTransformations[i].recordedState = previousFullAction
             ELSE AddedTransformations = <<>>]_vars

\* x was typed, then 2 . : two replays of the x were added.
C32_Witness ==
    /\ running = "CommandDot"
    /\ count = 2
    /\ previousFullAction.defined
    /\ Last(previousFullAction.actionsRun).name = "ActionDeleteChar"
    /\ Len(transformations) = 2

\* --------------------------------------------------- disabling the extension

\* DisableExtension.modes
DisableModes ==
    {"Normal", "Insert", "Visual", "VisualBlock", "VisualLine", "SearchInProgressMode",
     "CommandlineInProgress", "Replace", "EasyMotionMode", "EasyMotionInputMode",
     "SneakLabelInputMode", "SurroundInputMode"}

\* DisableExtension (the ExtensionDisable key)
DisableExtension ==
    /\ BaseDoesActionApply(DisableModes)
    /\ HandlerRuns("DisableExtension", <<"<ExtensionDisable>">>)
    /\ ExecEndsInMode("Disabled")
    /\ logged' = {}
    /\ UNCHANGED <<doc, cursors, isFakeMultiCursor, transformations, count, operatorCount,
                   registerName, operator, hasSwitcher, registerVars, changeVars,
                   symbolVars, registerModeVars, globalVars>>

\* EnableExtension (the ExtensionEnable key)
EnableExtension ==
    /\ BaseDoesActionApply({"Disabled"})
    /\ HandlerRuns("EnableExtension", <<"<ExtensionEnable>">>)
    /\ ExecEndsInMode("Normal")
    /\ logged' = {}
    /\ UNCHANGED <<doc, cursors, isFakeMultiCursor, transformations, count, operatorCount,
                   registerName, operator, hasSwitcher, registerVars, changeVars,
                   symbolVars, registerModeVars, globalVars>>

\* The keys of the visual modes, <C-a>, and the two keys of the extension.
NextDisable ==
    \/ \E cmd \in ModeCommands : BeginModeCommand(cmd)
    \/ IncrementDecrementNumberAction
    \/ DisableExtension
    \/ EnableExtension
    \/ \E i \in 1 .. MaxPending + 1 : SwitchInputMethodResolves(i)
    \/ \E i \in 1 .. MaxPending + 1 : SwitchInputMethodRejects(i)
    \/ CommandReported

InitDisable == Init /\ doc = <<2, 1>> /\ registers = NoRegisters

SpecDisable == InitDisable /\ [][NextDisable]_vars

\* C33 as stated: once the mode is Disabled it changes only through the exec
\* of EnableExtension, and then to Normal.
C33_DisabledUntilEnabled ==
    [][(currentMode = "Disabled" /\ currentMode' # "Disabled") =>
          (running' = "EnableExtension" /\ currentMode' = "Normal")]_vars

\* ------------------------------------------------------- the visual toggle

\* v, V and <C-v> typed in any order, with or without an input-method switcher.
NextToggle ==
    \/ \E cmd \in ModeCommands : BeginModeCommand(cmd)
    \/ \E i \in 1 .. MaxPending + 1 : SwitchInputMethodResolves(i)
    \/ \E i \in 1 .. MaxPending + 1 : SwitchInputMethodRejects(i)
    \/ CommandReported

InitToggle == Init /\ registers = NoRegisters

SpecToggle == InitToggle /\ [][NextToggle]_vars

ToggleModes == {"Normal", "Visual", "VisualLine", "VisualBlock"}
ToggleKeys == {"v", "V", "<C-v>"}

\* The visual mode a key stands for.
VisualModeOf(key) ==
    CASE key = "v" -> "Visual" [] key = "V" -> "VisualLine" [] OTHER -> "VisualBlock"

\* C34: for each of Normal, Visual, VisualLine, VisualBlock and each of v, V,
\* <C-v> exactly one command is registered, and when the exec of such a
\* command resolves the mode is Normal if the key was that of the mode the
\* key was typed in and the key's visual mode otherwise.
C34_VisualKeysToggle ==
    [][/\ \A mode \in ToggleModes, key \in ToggleKeys :
              Cardinality({cmd \in ModeCommands : cmd.key = key /\ mode \in cmd.modes}) = 1
       /\ (execState # "resolved" /\ execState' = "resolved") =>
              LET key == Last(actionsRun').keysPressed[1]
              IN currentMode' = IF currentMode = VisualModeOf(key)
                                THEN "Normal" ELSE VisualModeOf(key)]_vars

\* v was typed twice from Normal mode: the second v ended in Normal.
C34_Witness ==
    /\ running = "CommandExitVisualMode"
    /\ execState = "resolved"
    /\ currentMode = "Normal"
    /\ Len(actionsRun) = 2
    /\ actionsRun[1].name = "CommandVisualMode"

\* --------------------------------------------------- what setCurrentMode keeps

\* <C-o> typed in Insert mode: the handler is to come back to Insert mode
\* after the next command (returnToInsertAfterCommand is assigned true).
ReturnToInsertRequested ==
    /\ execState = "idle"
    /\ currentMode = "Insert"
    /\ ~returnToInsertAfterCommand
    /\ returnToInsertAfterCommand' = TRUE
    /\ lastCall' = Call("set returnToInsertAfterCommand", <<>>, NoPos)
    /\ logged' = {}
    /\ UNCHANGED <<doc, cursors, currentMode, firstVisibleLineBeforeSearch, isFakeMultiCursor,
                   transformations, pendingVars, asyncVars, macro, registerVars, changeVars,
                   symbolVars, registerModeVars, globalVars>>

\* setCurrentMode called with every mode of SetModes, <C-o>, and the answers
\* of the input-method switcher.
NextSetMode ==
    \/ \E mode \in SetModes : SetCurrentMode(mode)
    \/ ReturnToInsertRequested
    \/ \E i \in 1 .. MaxPending + 1 : SwitchInputMethodResolves(i)
    \/ \E i \in 1 .. MaxPending + 1 : SwitchInputMethodRejects(i)
    \/ CommandReported

InitSetMode == Init /\ registers = NoRegisters

SpecSetMode == InitSetMode /\ [][NextSetMode]_vars

\* C35: when a setCurrentMode call completes, firstVisibleLineBeforeSearch is
\* defined exactly if the mode is SearchInProgressMode, and if the mode is
\* Insert returnToInsertAfterCommand is false.
C35_SetModeKeepsFieldsInStep ==
    [][(execState # "resolved" /\ execState' = "resolved" /\ running' = "setCurrentMode") =>
          /\ (firstVisibleLineBeforeSearch' # UndefinedLine)
                 <=> (currentMode' = "SearchInProgressMode")
          /\ currentMode' = "Insert" => ~returnToInsertAfterCommand']_vars

\* With a switcher loaded, <C-o> was typed in Insert mode and a search was
\* started: the call completed, the first visible line is remembered and the
\* return to Insert mode is still due.
C35_Witness ==
    /\ running = "setCurrentMode"
    /\ execState = "resolved"
    /\ hasSwitcher
    /\ currentMode = "SearchInProgressMode"
    /\ firstVisibleLineBeforeSearch \in Lines
    /\ returnToInsertAfterCommand

\* ------------------------------------------------------------ i and a

\* i and a applying after whatever ran before them.
InsertDoesActionApplyAfterAnything == BaseCouldActionApply({"Normal"})

\* CommandInsertAtCursor.doesActionApply and CommandInsertAfterCursor.doesActionApply:
\* every action run so far is a CommandNumber, and the base test.
InsertDoesActionApply ==
    /\ \A i \in 1 .. Len(actionsRun) : IsNumber(actionsRun[i])
    /\ BaseCouldActionApply({"Normal"})

InsertKeys == {"i", "<Insert>"}

\* CommandInsertAtCursor (i, <Insert>)
CommandInsertAtCursor(key) ==
    /\ InsertDoesActionApply
    /\ HandlerRuns("CommandInsertAtCursor", <<key>>)
    /\ AwaitSetCurrentMode("Insert")
    /\ execState' = "resolved"
    /\ cursors' = CursorsAfterSet(cursors, <<cursors[1]>>)
    /\ logged' = LoggedBySet(<<cursors[1]>>)
    /\ UNCHANGED <<doc, isFakeMultiCursor, transformations, count, operatorCount,
                   registerName, operator, hasSwitcher, pendingSwitches, registerVars,
                   changeVars, symbolVars, registerModeVars, globalVars>>

\* CommandInsertAfterCursor (a): Insert mode, then both ends of the cursor
\* one column to the right.
CommandInsertAfterCursor ==
    LET right == GetRight(cursors[1].stop, 1)
        moved == CursorsAfterSetStop(CursorsAfterSetStart(cursors, right), right)
    IN /\ InsertDoesActionApply
       /\ HandlerRuns("CommandInsertAfterCursor", <<"a">>)
       /\ AwaitSetCurrentMode("Insert")
       /\ execState' = "resolved"
       /\ cursors' = CursorsAfterSet(cursors, <<moved[1]>>)
       /\ logged' = LoggedBySet(<<moved[1]>>)
       /\ UNCHANGED <<doc, isFakeMultiCursor, transformations, count, operatorCount,
                      registerName, operator, hasSwitcher, pendingSwitches, registerVars,
                      changeVars, symbolVars, registerModeVars, globalVars>>

\* A count, an operator, a register, then i, <Insert> or a.
NextInsert ==
    \/ \E key \in DigitKeys : CommandNumber(key)
    \/ \E key \in OperatorKeys : OperatorPressed(key)
    \/ \E ch \in MacroRegisterKeys : SelectRegister(ch)
    \/ \E key \in InsertKeys : CommandInsertAtCursor(key)
    \/ CommandInsertAfterCursor
    \/ CommandReported

InitInsert == Init /\ ~hasSwitcher /\ registers = NoRegisters

SpecInsert == InitInsert /\ [][NextInsert]_vars

\* C36: i, <Insert> and a run only when every action of the pending command
\* is a count digit (or there is none); with any other action in the pending
\* command no step switches the mode to Insert.
C36_InsertOnlyAfterCount ==
    [][LET onlyCounts ==
               \A i \in 1 .. Len(actionsRun) : actionsRun[i].name = "CommandNumber"
       IN /\ (Executes("CommandInsertAtCursor") \/ Executes("CommandInsertAfterCursor"))
                 => onlyCounts
          /\ (~onlyCounts /\ currentMode # "Insert") => currentMode' # "Insert"]_vars

\* 2 a was typed on a line with text: the mode is Insert and the caret moved
\* one column to the right.
C36_Witness ==
    /\ running = "CommandInsertAfterCursor"
    /\ currentMode = "Insert"
    /\ Len(actionsRun) = 2
    /\ actionsRun[1].name = "CommandNumber"
    /\ cursors = <<Caret(Pos(0, 1))>>

\* ------------------------------------------------------------ J and gJ

\* gJ joining as many lines below the cursor as the count says.
JoinNoWhitespaceCountPlain(c) == IF c = 0 THEN 1 ELSE c

\* ActionJoinNoWhitespace.exec: the count handed to execJoin.
JoinNoWhitespaceCount(c) == IF c > 2 THEN c - 1 ELSE 1

RECURSIVE JoinedLength(_, _)
JoinedLength(first, last) ==
    IF first > last THEN 0 ELSE LineLength(first) + JoinedLength(first + 1, last)

\* ActionJoinNoWhitespace.exec and execJoin at `position`: nothing on the last
\* line, otherwise one replaceText over the joined lines.
JoinedWithoutWhitespace(position) ==
    LET lastLine == Min(position.line + JoinNoWhitespaceCount(count), Len(doc) - 1)
    IN IF position.line = Len(doc) - 1 THEN <<>>
       ELSE <<[type |-> "replaceText", text |-> JoinedLength(position.line, lastLine),
               start |-> Pos(position.line, 0),
               end |-> Pos(lastLine, LineLength(lastLine)),
               cursorIndex |-> UndefinedIndex, manuallySetCursorPositions |-> FALSE]>>

\* ActionJoinNoWhitespace (g J in Normal mode) with a single cursor.
ActionJoinNoWhitespace ==
    /\ BaseDoesActionApply({"Normal"})
    /\ Len(cursors) = 1
    /\ HandlerRuns("ActionJoinNoWhitespace", <<"g", "J">>)
    /\ transformations' = transformations \o JoinedWithoutWhitespace(cursors[1].stop)
    /\ cursors' = CursorsAfterSet(cursors, <<cursors[1]>>)
    /\ logged' = LoggedBySet(<<cursors[1]>>)
    /\ execState' = "resolved"
    /\ UNCHANGED <<doc, modeVars, isFakeMultiCursor, count, operatorCount, registerName,
                   operator, hasSwitcher, pendingSwitches, registerVars, changeVars,
                   symbolVars, registerModeVars, globalVars>>

\* Documents of four lines, some of them empty.
JoinDocuments == {<<2, 1, 0, 1>>, <<1, 0, 2, 0>>}

\* The digits typed before J and g J.
JoinLinesCountKeys == {"1", "2", "3"}

\* The caret is put on a line, a count is typed, then J or g J.
NextJoinLines ==
    \/ \E l \in Lines : SetCursors(<<Caret(Pos(l, 0))>>)
    \/ \E key \in JoinLinesCountKeys : CommandNumber(key)
    \/ ActionJoin
    \/ ActionJoinNoWhitespace
    \/ CommandReported

InitJoinLines ==
    doc \in JoinDocuments /\ InitState /\ ~hasSwitcher /\ registers = NoRegisters

SpecJoinLines == InitJoinLines /\ [][NextJoinLines]_vars

\* ---------------------------------------------------- claims: J and gJ

\* C37: J and g J typed with count n at a single caret that is not on the
\* last line add one replaceText from the start of the cursor line to the end
\* of the line max(n, 2) - 1 lines below it, or of the last line when the
\* document ends before; g J on the last line adds nothing.
C37_JoinsAtLeastTwoLines ==
    [][((Executes("ActionJoin") \/ Executes("ActionJoinNoWhitespace"))
           /\ Len(cursors) = 1 /\ cursors[1].start = cursors[1].stop) =>
          LET line == cursors[1].stop.line
              lastLine == Len(doc) - 1
              joinedTo == Min(line + Max(count, 2) - 1, lastLine)
          IN IF line < lastLine
             THEN /\ Len(AddedTransformations) = 1
                  /\ AddedTransformations[1].type = "replaceText"
                  /\ AddedTransformations[1].start = Pos(line, 0)
                  /\ AddedTransformations[1].end = Pos(joinedTo, doc[joinedTo + 1])
             ELSE running' = "ActionJoinNoWhitespace" => AddedTransformations = <<>>]_vars

\* 3 g J was typed on the first of four lines: three lines are joined.
C37_Witness ==
    /\ running = "ActionJoinNoWhitespace"
    /\ count = 3
    /\ Len(doc) = 4
    /\ Len(transformations) = 1
    /\ transformations[1].start = Pos(0, 0)
    /\ transformations[1].end.line = 2

\* ------------------------------------------------------------ r <character>

\* r replacing whatever the count, also past the end of the line.
ReplaceFitsAlways(position, timesToRepeat) == TRUE

\* ActionReplaceCharacter.exec: the two tests that let it go on; getLineEnd
\* is the end of the position's line.
ReplaceFits(position, timesToRepeat) ==
    /\ ~(position.character + timesToRepeat > LineLength(position.line))
    /\ ~(position.character + timesToRepeat > LineLength(position.line))

\* toReplace.repeat(timesToRepeat)
RepeatedCharacter(ch, n) == [i \in 1 .. n |-> ch]

\* ActionReplaceCharacter.exec at `position` for a character that is neither
\* <BS>, <S-BS>, <tab> nor a line break: the transformations it adds.
ReplacedCharacters(position, toReplace) ==
    LET timesToRepeat == IF count = 0 THEN 1 ELSE count
        endPos == Pos(position.line, position.character + timesToRepeat)
    IN IF ReplaceFits(position, timesToRepeat)
       THEN <<[type |-> "replaceText", text |-> RepeatedCharacter(toReplace, timesToRepeat),
               start |-> Range(position, endPos).start, end |-> Range(position, endPos).end,
               diff |-> timesToRepeat - 1]>>
       ELSE <<>>

\* The characters typed after r.
ReplaceCharacters == {"x"}

\* ActionReplaceCharacter (r <character> in Normal mode) with a single cursor.
ActionReplaceCharacter(ch) ==
    /\ BaseDoesActionApply({"Normal"})
    /\ Len(cursors) = 1
    /\ HandlerRuns("ActionReplaceCharacter", <<"r", ch>>)
    /\ transformations' = transformations \o ReplacedCharacters(cursors[1].stop, ch)
    /\ cursors' = CursorsAfterSet(cursors, <<cursors[1]>>)
    /\ logged' = LoggedBySet(<<cursors[1]>>)
    /\ execState' = "resolved"
    /\ UNCHANGED <<doc, modeVars, isFakeMultiCursor, count, operatorCount, registerName,
                   operator, hasSwitcher, pendingSwitches, registerVars, changeVars,
                   symbolVars, registerModeVars, globalVars>>

\* Documents with a line of three characters and an empty line.
ReplaceDocuments == {<<3, 0>>, <<1, 2>>}

\* The carets the editor hands over: every column of every line.
ReplaceCarets ==
    UNION {{Caret(Pos(l, c)) : c \in 0 .. Max(0, LineLength(l) - 1)} : l \in Lines}

\* The caret is put on a character, a count is typed, then r <character>.
NextReplace ==
    \/ \E caret \in ReplaceCarets : SetCursors(<<caret>>)
    \/ \E key \in JoinLinesCountKeys : CommandNumber(key)
    \/ \E ch \in ReplaceCharacters : ActionReplaceCharacter(ch)
    \/ CommandReported

InitReplace ==
    doc \in ReplaceDocuments /\ InitState /\ ~hasSwitcher /\ registers = NoRegisters

SpecReplace == InitReplace /\ [][NextReplace]_vars

\* ----------------------------------------------- claims: r <character>

\* C38: r <character> with count n (no count counting as 1) at column c of a
\* line of length len adds nothing and changes neither cursor, mode nor
\* document when c + n > len; otherwise it adds one replaceText of the columns
\* c to c + n by n copies of the character, which leaves the line as long as
\* it was, and puts the cursor on column c + n - 1.
C38_ReplaceWithinLine ==
    [][(Executes("ActionReplaceCharacter") /\ Len(cursors) = 1) =>
          LET position == cursors[1].stop
              c == position.character
              n == Max(count, 1)
              len == doc[position.line + 1]
              ch == Last(actionsRun').keysPressed[2]
              added == AddedTransformations
          IN IF c + n > len
             THEN /\ added = <<>>
                  /\ cursors' = cursors
                  /\ currentMode' = currentMode
                  /\ doc' = doc
             ELSE /\ Len(added) = 1
                  /\ added[1].type = "replaceText"
                  /\ added[1].start = Pos(position.line, c)
                  /\ added[1].end = Pos(position.line, c + n)
                  /\ added[1].text = [i \in 1 .. n |-> ch]
                  /\ len - (added[1].end.character - added[1].start.character)
                         + Len(added[1].text) = len
                  /\ c + added[1].diff = c + n - 1]_vars

\* 2 r x was typed at column 1 of a line of three characters: the last two
\* characters are replaced.
C38_Witness ==
    /\ running = "ActionReplaceCharacter"
    /\ count = 2
    /\ cursors = <<Caret(Pos(0, 1))>>
    /\ Len(transformations) = 1
    /\ transformations[1].end = Pos(0, 3)

\* ------------------------------------------------------------------ o and O

\* The longest document o and O may produce.
MaxDocLines == 6

\* The indentation the editor gives to a line it opens.
InsertLineIndents == {0, 1}

\* The document after `n` runs of editor.action.insertLineBefore (above = TRUE)
\* or editor.action.insertLineAfter (above = FALSE) with the caret on `line`:
\* each run opens a line of `indent` columns next to the caret's line and
\* puts the caret at its end.
OpenedLines(line, n, indent, above) ==
    LET at == IF above THEN line ELSE line + 1
    IN SubSeq(doc, 1, at) \o [i \in 1 .. n |-> indent] \o SubSeq(doc, at + 1, Len(doc))

\* getCursorsAfterSync(): the editor's selection, here the caret the last
\* insertLineBefore / insertLineAfter left.
CursorsAfterSync(line, n, indent, above) ==
    <<Caret(Pos(IF above THEN line ELSE line + n, indent))>>

\* Array.prototype.reverse
Reversed(s) == [i \in 1 .. Len(s) |-> s[Len(s) + 1 - i]]

\* CommandInsertNewLineAbove.execCount: the cursors pushed by its loop,
\* i = 0 .. count - 1.
PushedAbove(synced, n) ==
    [i \in 1 .. n |-> Caret(Pos(synced[1].start.line + (i - 1), synced[1].start.character))]

\* o counting the lines downwards from the caret instead of upwards.
PushedBelowDownwards(synced, n) ==
    [i \in 1 .. (n - 1) |-> Caret(Pos(synced[1].start.line + i, synced[1].start.character))]

\* CommandInsertNewLineBefore.execCount: the cursors pushed by its loop,
\* i = 1 .. count - 1; cursorStartPosition is the start of the first cursor.
PushedBelow(synced, n) ==
    [i \in 1 .. (n - 1) |-> Caret(Pos(synced[1].start.line - i, synced[1].start.character))]

\* The insertText transformations of CommandInsertNewLineBefore's loop; the
\* text of setIndentationLevel('', character) is kept as its width.
IndentationsBelow(synced, n) ==
    [i \in 1 .. (n - 1) |->
        [type |-> "insertText", text |-> synced[1].start.character,
         position |-> Pos(synced[1].start.line - i, synced[1].start.character),
         cursorIndex |-> i]]

\* What the cursors setter logs for `value` once the document is `d`.
LoggedBySetIn(d, value) ==
    IF \E i \in 1 .. Len(value) :
           \/ value[i].start.line >= Len(d)
           \/ value[i].start.character > d[value[i].start.line + 1]
           \/ value[i].stop.line >= Len(d)
           \/ value[i].stop.character > d[value[i].stop.line + 1]
    THEN {"invalid cursor position"} ELSE {}

\* The part o and O share: Insert mode, `count || 1` lines opened, the
\* cursors read back from the editor, `pushed` appended to them, the array
\* reversed and assigned, isFakeMultiCursor set.
InsertNewLines(name, key, above, indent) ==
    LET n == IF count = 0 THEN 1 ELSE count
        line == cursors[1].stop.line
        synced == CursorsAfterSet(cursors, CursorsAfterSync(line, n, indent, above))
        pushed == IF above THEN PushedAbove(synced, n) ELSE PushedBelow(synced, n)
        value == Reversed(synced \o pushed)
    IN /\ BaseDoesActionApply({"Normal"})
       /\ Len(cursors) = 1
       /\ CursorIsValid(cursors[1])
       /\ Len(doc) + n <= MaxDocLines
       /\ HandlerRuns(name, <<key>>)
       /\ AwaitSetCurrentMode("Insert")
       /\ doc' = OpenedLines(line, n, indent, above)
       /\ cursors' = CursorsAfterSet(synced, value)
       /\ logged' = LoggedBySetIn(doc', value)
       /\ transformations' =
              transformations \o (IF above THEN <<>> ELSE IndentationsBelow(synced, n))
       /\ isFakeMultiCursor' = TRUE
       /\ execState' = "resolved"
       /\ UNCHANGED <<count, operatorCount, registerName, operator, hasSwitcher,
                      pendingSwitches, registerVars, changeVars, symbolVars,
                      registerModeVars, globalVars>>

\* CommandInsertNewLineAbove (O)
CommandInsertNewLineAbove(indent) ==
    InsertNewLines("CommandInsertNewLineAbove", "O", TRUE, indent)

\* CommandInsertNewLineBefore (o)
CommandInsertNewLineBefore(indent) ==
    InsertNewLines("CommandInsertNewLineBefore", "o", FALSE, indent)

\* The caret is put on a line, a count is typed, then o or O.
NextOpenLine ==
    \/ \E l \in Lines : SetCursors(<<Caret(Pos(l, 0))>>)
    \/ \E key \in JoinLinesCountKeys : CommandNumber(key)
    \/ \E indent \in InsertLineIndents : CommandInsertNewLineAbove(indent)
    \/ \E indent \in InsertLineIndents : CommandInsertNewLineBefore(indent)
    \/ CommandReported

InitOpenLine == Init /\ ~hasSwitcher /\ registers = NoRegisters

SpecOpenLine == InitOpenLine /\ [][NextOpenLine]_vars

\* ------------------------------------- claims: r <character> on a selection

\* The length of the line of a replaceText once it is applied: the editor
\* replaces the part of the range that lies on the line by the text.
LengthAfter(t) ==
    LET len == LineLength(t.start.line)
    IN len - (Min(t.end.character, len) - Min(t.start.character, len)) + t.text

\* C39 as stated: r <character> in Visual or VisualLine mode adds one
\* replaceText for every line of the selection, each within its line, and
\* every line is as long after the command as before, also when the selection
\* starts, ends or lies on an empty line.
C39_VisualReplaceKeepsLineLengths ==
    [][Executes("ActionReplaceCharacterVisual") =>
          LET lines == SelectionLines
          IN /\ Len(AddedTransformations) = Cardinality(lines)
             /\ \A i \in 1 .. Len(AddedTransformations) :
                    LET t == AddedTransformations[i]
                    IN /\ t.start.line = t.end.line
                       /\ t.start.line \in lines
                       /\ LengthAfter(t) = LineLength(t.start.line)]_vars

\* ------------------------------------------------------ claims: o and O

\* The carets of `cs`, as a set.
CaretSet(cs) == {cs[i] : i \in 1 .. Len(cs)}

\* C40: o and O with count n >= 1 (no count counting as 1), run from a single
\* caret on line l, end in Insert mode with isFakeMultiCursor true and exactly
\* n cursors, all of them carets, no two alike, one on each of the n lines
\* opened: l .. l + n - 1 for O, l + 1 .. l + n for o.
C40_OpenLinesOneCaretEach ==
    [][(Executes("CommandInsertNewLineAbove") \/ Executes("CommandInsertNewLineBefore")) =>
          LET n == Max(count, 1)
              l == cursors[1].stop.line
              first == IF running' = "CommandInsertNewLineAbove" THEN l ELSE l + 1
          IN /\ currentMode' = "Insert"
             /\ isFakeMultiCursor'
             /\ Len(doc') = Len(doc) + n
             /\ Len(cursors') = n
             /\ Cardinality(CaretSet(cursors')) = n
             /\ \A i \in 1 .. n : cursors'[i].start = cursors'[i].stop
             /\ {cursors'[i].stop.line : i \in 1 .. n} = first .. (first + n - 1)]_vars

\* 3 O was typed: three cursors, on the three lines opened.
C40_Witness ==
    /\ running = "CommandInsertNewLineAbove"
    /\ count = 3
    /\ currentMode = "Insert"
    /\ isFakeMultiCursor
    /\ Len(cursors) = 3

Next == NextCursors \/ NextMode \/ NextPending \/ NextRecord \/ NextInvoke \/ NextChanges
           \/ NextCancel \/ NextDelete \/ NextSymbols \/ NextRegisterMode
           \/ NextJoin \/ NextVisual \/ NextDot \/ NextDisable
           \/ NextToggle \/ NextSetMode \/ NextInsert
           \/ NextJoinLines \/ NextReplace \/ NextOpenLine

Spec == Init /\ [][Next]_vars

====
